-------------------------- MODULE MCSalesImportFile --------------------------
(* Cells on both sides of every limit of the contract, for TLC. *)
EXTENDS SalesImportFile

Text(value, length, control) == [value |-> value, length |-> length, control |-> control]

Currency(length, control, ascii, letters) ==
    [value |-> "c", length |-> length, control |-> control,
     ascii |-> ascii, letters |-> letters]

Day(form, real, year) == [form |-> form, real |-> real, year |-> year]

Number(sign, digits, places) ==
    [form |-> "number", sign |-> sign, digits |-> digits, places |-> places]

NoNumber(form) == [form |-> form, sign |-> 0, digits |-> 0, places |-> 0]

None == Text("", 0, FALSE)

\* A sale without partners, and one with both.
Sale ==
    [id |-> Text("a", 255, FALSE), date |-> Day("iso", TRUE, 9998),
     product |-> Text("p", 64, FALSE), territory |-> Text("t", 1, FALSE),
     hospital |-> None, rep |-> None,
     quantity |-> Number(1, 18, 3), revenue |-> Number(1, 20, 4),
     currency |-> Currency(3, FALSE, TRUE, TRUE)]

PartnerSale ==
    [Sale EXCEPT !.id = Text("b", 1, FALSE), !.hospital = Text("h", 64, FALSE),
                 !.rep = Text("r", 1, FALSE)]

FaultyTexts == {None, Text("x", 65, FALSE), Text("x", 3, TRUE)}

FaultyIds == {None, Text("x", 256, FALSE), Text("b", 255, TRUE)}

FaultyDays == {Day("blank", FALSE, 0), Day("malformed", FALSE, 0),
               Day("iso", FALSE, 2025), Day("iso", TRUE, 9999)}

\* 15 whole digits and 3 places; 0.05; zero; 16 whole digits; 4 places; no number.
Quantities == {Number(1, 1, 2), Number(-1, 15, 0), Number(0, 1, 0), Number(0, 1, 4),
               Number(1, 16, 0), Number(1, 19, 3), Number(1, 2, 4)}
              \cup {NoNumber(f) : f \in {"blank", "overlong", "malformed"}}

Revenues == {Number(-1, 16, 0), Number(0, 1, 0), Number(0, 1, 4), Number(1, 17, 0),
             Number(-1, 1, 5)} \cup {NoNumber("blank")}

Currencies == {Currency(0, FALSE, TRUE, FALSE), Currency(4, FALSE, TRUE, FALSE),
               Currency(3, FALSE, FALSE, TRUE), Currency(3, TRUE, TRUE, FALSE)}

AllRecords ==
    {Sale, PartnerSale, [PartnerSale EXCEPT !.product = None, !.revenue = NoNumber("blank")]}
    \cup {[Sale EXCEPT !.id = x] : x \in FaultyIds}
    \cup {[Sale EXCEPT !.date = x] : x \in FaultyDays}
    \cup {[Sale EXCEPT !.product = x] : x \in FaultyTexts}
    \cup {[Sale EXCEPT !.hospital = x] : x \in FaultyTexts}
    \cup {[Sale EXCEPT !.quantity = x] : x \in Quantities}
    \cup {[Sale EXCEPT !.revenue = x] : x \in Revenues}
    \cup {[Sale EXCEPT !.quantity = Number(-1, 1, 0), !.revenue = x] : x \in Revenues}
    \cup {[Sale EXCEPT !.currency = x] : x \in Currencies}

\* Names on both sides of the room that either message leaves them.
AllHeaders ==
    {[present |-> FALSE, repeated |-> FALSE, missing |-> FALSE, unknown |-> FALSE,
      names |-> 0]}
    \cup {h \in [present : {TRUE}, repeated : BOOLEAN, missing : BOOLEAN,
                  unknown : BOOLEAN, names : {0, 974, 975, 976, 977}] :
             h.names > 0 => h.repeated \/ h.unknown}

Known ==
    [calendar |-> TRUE, product |-> TRUE, territory |-> "leaf", hospital |-> "here",
     rep |-> "here", fact |-> "none"]

AllFindings ==
    {Known, [Known EXCEPT !.fact = "same"], [Known EXCEPT !.fact = "different"],
     [Known EXCEPT !.calendar = FALSE, !.product = FALSE],
     [Known EXCEPT !.territory = "group", !.rep = "elsewhere"],
     [Known EXCEPT !.territory = "absent", !.hospital = "elsewhere", !.rep = "absent"],
     [Known EXCEPT !.hospital = "absent", !.rep = "elsewhere", !.fact = "different"]}
=============================================================================
