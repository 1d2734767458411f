----------------------------- MODULE LeasedWork -----------------------------
(***************************************************************************)
(* What the durable queue promises, without tokens, rows or clocks: items  *)
(* of work are held by at most one worker at a time, only the holder of an *)
(* item answers for it, an item may be taken from its holder at any time   *)
(* except while the holder has sealed it to publish it, every holding uses *)
(* up one attempt of a budget, and what is published stays published.      *)
(***************************************************************************)
EXTENDS Naturals

CONSTANTS Items, Workers, Nobody    \* Nobody is no worker

VARIABLES
    state,     \* "none", "waiting", "open", "held", "failed" or "published"
    holder,    \* who works on it; a held item of Nobody lost its worker
    sealed,    \* the items being published
    spent,     \* holdings so far
    budget     \* holdings allowed

absVars == <<state, holder, sealed, spent, budget>>

AbsInit ==
    /\ state = [i \in Items |-> "none"]
    /\ holder = [i \in Items |-> Nobody]
    /\ sealed = {}
    /\ spent = [i \in Items |-> 0]
    /\ budget \in [Items -> Nat]

Admit(i) ==
    /\ state[i] = "none"
    /\ state' = [state EXCEPT ![i] = "waiting"]
    /\ UNCHANGED <<holder, sealed, spent, budget>>

Release(i) ==
    /\ state[i] = "waiting"
    /\ \E s \in {"open", "failed"} : state' = [state EXCEPT ![i] = s]
    /\ UNCHANGED <<holder, sealed, spent, budget>>

\* From the open, or from a holder that may not even know yet.
Take(w, i) ==
    /\ state[i] \in {"open", "held"}
    /\ i \notin sealed
    /\ spent[i] < budget[i]
    /\ \A k \in Items : holder[k] # w
    /\ state' = [state EXCEPT ![i] = "held"]
    /\ holder' = [holder EXCEPT ![i] = w]
    /\ spent' = [spent EXCEPT ![i] = spent[i] + 1]
    /\ UNCHANGED <<sealed, budget>>

Seal(w, i) ==
    /\ holder[i] = w
    /\ sealed' = sealed \cup {i}
    /\ UNCHANGED <<state, holder, spent, budget>>

Unseal(w, i) ==
    /\ holder[i] = w
    /\ sealed' = sealed \ {i}
    /\ UNCHANGED <<state, holder, spent, budget>>

\* The holder answers: try again while attempts are left, fail, or publish.
Answer(w, i) ==
    /\ holder[i] = w
    /\ \E s \in {"open", "failed", "published"} :
         /\ s = "open" => spent[i] < budget[i]
         /\ s = "published" => i \in sealed
         /\ state' = [state EXCEPT ![i] = s]
    /\ holder' = [holder EXCEPT ![i] = Nobody]
    /\ sealed' = sealed \ {i}
    /\ UNCHANGED <<spent, budget>>

\* The holder dies or loses heart.
Abandon(w, i) ==
    /\ holder[i] = w
    /\ holder' = [holder EXCEPT ![i] = Nobody]
    /\ sealed' = sealed \ {i}
    /\ UNCHANGED <<state, spent, budget>>

\* Items that used up their budget fail, whoever still believes to hold them.
GiveUp(S) ==
    /\ \A i \in S : state[i] = "held" /\ i \notin sealed /\ spent[i] = budget[i]
    /\ state' = [i \in Items |-> IF i \in S THEN "failed" ELSE state[i]]
    /\ holder' = [i \in Items |-> IF i \in S THEN Nobody ELSE holder[i]]
    /\ UNCHANGED <<sealed, spent, budget>>

Reopen(i) ==
    /\ state[i] = "failed"
    /\ state' = [state EXCEPT ![i] = "open"]
    /\ budget' = [budget EXCEPT ![i] = budget'[i]]
    /\ budget'[i] \in Nat /\ budget'[i] > budget[i] /\ budget'[i] > spent[i]
    /\ UNCHANGED <<holder, sealed, spent>>

AbsNext ==
    \/ \E S \in SUBSET Items : GiveUp(S)
    \/ \E w \in Workers, i \in Items :
         Take(w, i) \/ Seal(w, i) \/ Unseal(w, i) \/ Answer(w, i) \/ Abandon(w, i)
    \/ \E i \in Items : Admit(i) \/ Release(i) \/ Reopen(i)

AbsSpec == AbsInit /\ [][AbsNext]_absVars
=============================================================================
