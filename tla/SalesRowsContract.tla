------------------------- MODULE SalesRowsContract -------------------------
(***************************************************************************)
(* The rules one sales row must satisfy: sales_imports/contracts.py before *)
(* the row is staged, _resolve_and_validate_chunk before it is published,  *)
(* and the CHECK constraints of the tables the row is written to.          *)
(*                                                                         *)
(* A cell is what the rules see of a stripped value:                       *)
(*   text     [value, length, control], upper-cased where the code does;   *)
(*   currency a text cell with ascii and letters: whether the raw value    *)
(*            is ASCII, and its upper case three letters A to Z;           *)
(*   date     [form, real, year], form "blank", "malformed" or "iso";      *)
(*   decimal  [form, sign, digits, places], form "blank", "overlong",      *)
(*            "malformed" or "number"; digits has no leading zeros.        *)
(***************************************************************************)
EXTENDS IssueCollector

\* SalesRowsV1Validator limits of the text columns, and of the two measures.
IdLength       == 255
CodeLength     == 64
CurrencyLength == 3
Quantity       == [digits |-> 18, places |-> 3]
Revenue        == [digits |-> 20, places |-> 4]
LastYear       == 9998

When(wrong, issue) == IF wrong THEN <<issue>> ELSE <<>>

Blank(cell) == cell.length = 0

TextIssues(number, column, cell, required, longest) ==
    IF Blank(cell)
    THEN When(required, Issue(number, column, "REQUIRED_VALUE_MISSING"))
    ELSE When(cell.length > longest, Issue(number, column, "VALUE_TOO_LONG"))
         \o When(cell.control, Issue(number, column, "INVALID_CONTROL_CHARACTER"))

SupportedDate(cell) ==
    cell.form = "iso" /\ cell.real /\ cell.year <= LastYear

DateIssues(number, cell) ==
    CASE cell.form = "blank" ->
           <<Issue(number, "transaction_date", "REQUIRED_VALUE_MISSING")>>
      [] cell.form # "blank" /\ ~SupportedDate(cell) ->
           <<Issue(number, "transaction_date", "DATE_INVALID_FORMAT")>>
      [] OTHER -> <<>>

\* Mutant: only the total of digits and the decimal places are limited.
HasTooManyDigits(cell, limit) ==
    cell.digits > limit.digits \/ cell.places > limit.places

\* Django's DecimalValidator.  "0.05" counts two digits, both of them decimals.
ExceedsPrecision(cell, limit) ==
    LET digits == IF cell.places > cell.digits THEN cell.places ELSE cell.digits
    IN  \/ digits > limit.digits
        \/ cell.places > limit.places
        \/ digits - cell.places > limit.digits - limit.places

DecimalIssues(number, column, cell, limit) ==
    CASE cell.form = "blank" ->
           <<Issue(number, column, "REQUIRED_VALUE_MISSING")>>
      [] cell.form = "overlong" ->
           <<Issue(number, column, "DECIMAL_PRECISION_EXCEEDED")>>
      [] cell.form = "malformed" ->
           <<Issue(number, column, "DECIMAL_INVALID_FORMAT")>>
      [] cell.form = "number" ->
           When(ExceedsPrecision(cell, limit),
                Issue(number, column, "DECIMAL_PRECISION_EXCEEDED"))

Parsed(cell, limit) == cell.form = "number" /\ ~ExceedsPrecision(cell, limit)

CurrencyIssues(number, cell) ==
    TextIssues(number, "currency_code", cell, TRUE, CurrencyLength)
    \o When(~Blank(cell) /\ ~(cell.ascii /\ cell.letters),
            Issue(number, "currency_code", "CURRENCY_CODE_INVALID"))

\* A sale has no negative revenue, a return no positive one; zero goes with both.
SignsDisagree(quantity, revenue) == quantity.sign * revenue.sign < 0

MeasureIssues(number, quantity, revenue) ==
    When(Parsed(quantity, Quantity) /\ quantity.sign = 0,
         Issue(number, "quantity", "QUANTITY_ZERO"))
    \o When(/\ Parsed(quantity, Quantity)
            /\ Parsed(revenue, Revenue)
            /\ SignsDisagree(quantity, revenue),
            Issue(number, "revenue_amount", "MEASURE_SIGN_MISMATCH"))

\* SalesRowsV1Validator.validate; seen holds the ids of the rows before.
RowIssues(number, cells, seen) ==
    TextIssues(number, "source_record_id", cells.id, TRUE, IdLength)
    \o DateIssues(number, cells.date)
    \o TextIssues(number, "product_code", cells.product, TRUE, CodeLength)
    \o TextIssues(number, "territory_code", cells.territory, TRUE, CodeLength)
    \o TextIssues(number, "hospital_code", cells.hospital, FALSE, CodeLength)
    \o TextIssues(number, "sales_representative_code", cells.rep, FALSE, CodeLength)
    \o DecimalIssues(number, "quantity", cells.quantity, Quantity)
    \o DecimalIssues(number, "revenue_amount", cells.revenue, Revenue)
    \o CurrencyIssues(number, cells.currency)
    \o MeasureIssues(number, cells.quantity, cells.revenue)
    \o When(~Blank(cells.id) /\ cells.id.value \in seen,
            Issue(number, "source_record_id", "DUPLICATE_SOURCE_RECORD_ID"))

-----------------------------------------------------------------------------
(***************************************************************************)
(* _resolve_and_validate_chunk, for one row.  found says what the database *)
(* knows of it: calendar and product are present or not; territory is      *)
(* "absent", "group" (above Territory level) or "leaf"; hospital and rep   *)
(* are "absent", "elsewhere" (not assigned to the territory that day) or   *)
(* "here"; fact is "none", "same" or "different".                          *)
(***************************************************************************)

PartnerMissing(number, column, cell, known, code) ==
    When(~Blank(cell) /\ known = "absent", Issue(number, column, code))

PartnerElsewhere(number, column, cell, known, territory, code) ==
    When(~Blank(cell) /\ known = "elsewhere" /\ territory # "absent",
         Issue(number, column, code))

ReferenceIssues(number, cells, found) ==
    When(~found.calendar,
         Issue(number, "transaction_date", "CALENDAR_DATE_NOT_FOUND"))
    \o When(~found.product, Issue(number, "product_code", "PRODUCT_NOT_FOUND"))
    \o When(found.territory = "absent",
            Issue(number, "territory_code", "TERRITORY_NOT_FOUND"))
    \o When(found.territory = "group",
            Issue(number, "territory_code", "TERRITORY_NOT_LEAF"))
    \o PartnerMissing(number, "hospital_code", cells.hospital, found.hospital,
                      "HOSPITAL_NOT_FOUND")
    \o PartnerMissing(number, "sales_representative_code", cells.rep, found.rep,
                      "SALES_REPRESENTATIVE_NOT_FOUND")
    \o PartnerElsewhere(number, "hospital_code", cells.hospital, found.hospital,
                        found.territory, "HOSPITAL_TERRITORY_MISMATCH")
    \o PartnerElsewhere(number, "sales_representative_code", cells.rep, found.rep,
                        found.territory, "SALES_REPRESENTATIVE_TERRITORY_MISMATCH")

\* A fact is only compared with a row whose references are all right.
DatabaseIssues(number, cells, found) ==
    LET references == ReferenceIssues(number, cells, found)
    IN  references
        \o When(references = <<>> /\ found.fact = "different",
                Issue(number, "source_record_id", "SOURCE_RECORD_CONFLICT"))

-----------------------------------------------------------------------------
(***************************************************************************)
(* What PostgreSQL accepts, for a staged row and for the fact made of it.  *)
(***************************************************************************)

StorableText(cell, required, longest) ==
    (required => ~Blank(cell)) /\ cell.length <= longest

\* numeric(digits, places) stores the value as it is, without rounding: a
\* non-zero value is below 10^n exactly when it has at most n whole digits.
StorableDecimal(cell, limit) ==
    /\ cell.form = "number"
    /\ cell.places <= limit.places
    /\ cell.sign # 0 => cell.digits - cell.places <= limit.digits - limit.places

\* The sales_staged_* and business_data_sales_* constraints.
StorableRow(cells) ==
    /\ StorableText(cells.id, TRUE, IdLength)
    /\ StorableText(cells.product, TRUE, CodeLength)
    /\ StorableText(cells.territory, TRUE, CodeLength)
    /\ StorableText(cells.hospital, FALSE, CodeLength)
    /\ StorableText(cells.rep, FALSE, CodeLength)
    /\ cells.date.form = "iso" /\ cells.date.real
    /\ cells.currency.length = CurrencyLength /\ cells.currency.letters
    /\ StorableDecimal(cells.quantity, Quantity)
    /\ StorableDecimal(cells.revenue, Revenue)
    /\ \/ cells.quantity.sign = 1 /\ cells.revenue.sign >= 0
       \/ cells.quantity.sign = -1 /\ cells.revenue.sign <= 0
=============================================================================
