-------------------------- MODULE CallbackMetadata --------------------------
(***************************************************************************)
(* What the gateway reads out of a callback (pkg/payload/stk.go): getters  *)
(* that take an item of CallbackMetadata by its place and turn its JSON    *)
(* value into a field.  M-Pesa sends a payment's items in one of two       *)
(* layouts, with a Balance or without, and none with a refusal.            *)
(*                                                                         *)
(* A number is known by an id, how many digits it has and how many are     *)
(* left without its trailing zeros, an amount, which is whole, by its      *)
(* value too; a text by what it stands for, its length, and whether it is  *)
(* written in plain digits.                                                *)
(***************************************************************************)
EXTENDS Integers, Sequences

CONSTANTS
  Amounts, Receipts, Phones,  \* what payments may carry
  Dates                       \* TransactionDates: 14 digits, some of them zeros

VARIABLES
  item,       \* CallbackMetadata.Item
  fields      \* what the getters return of it

vars == <<item, fields>>

\* Bound: the largest amount whose float32 is less than 2^31.
MaxAmount == 2147483583

ASSUME MetadataAssumption ==
  /\ \A n \in Amounts \cup Phones \cup Dates :
       n.digits \in Nat \ {0} /\ n.significant \in 1..n.digits
  /\ \A d \in Dates : d.digits = 14
  /\ \A a \in Amounts : a.value \in Nat /\ a.value <= MaxAmount

Number(n) == [kind |-> "number", of |-> n]
Text(s)   == [kind |-> "text", of |-> s]
Nothing   == [kind |-> "nil", of |-> "nil"]

Named(name, value) == [name |-> name, value |-> value]

\* The example at the end of the file, and the same without its Balance.
FiveItems(a, r, d, p) ==
  <<Named("Amount", Number(a)), Named("MpesaReceiptNumber", Text(r)),
    Named("Balance", Nothing), Named("TransactionDate", Number(d)),
    Named("PhoneNumber", Number(p))>>

FourItems(a, r, d, p) ==
  <<Named("Amount", Number(a)), Named("MpesaReceiptNumber", Text(r)),
    Named("TransactionDate", Number(d)), Named("PhoneNumber", Number(p))>>

-----------------------------------------------------------------------------

Plain(s, length) == [of |-> s, length |-> length, plain |-> TRUE]
Empty == Plain("", 0)

\* fmt.Sprint: a float64 of seven digits or more is written with an exponent, as in
\* 2.0171104184944e+13.
Sprint(v) ==
  CASE v.kind = "text" -> Plain(v.of, 10)
    [] v.kind = "nil"  -> Plain("<nil>", 5)
    [] v.kind = "number" ->
         IF v.of.digits < 7 THEN Plain(v.of.id, v.of.digits)
         ELSE [of |-> v.of.id, plain |-> FALSE,
               length |-> 4 + (IF v.of.significant = 1 THEN 1 ELSE v.of.significant + 1)]

HasMetadata == Len(item) \in {4, 5}

\* A float32 has 24 bits for a number: one that takes more is rounded to a multiple of
\* a power of two, and to the even one of two that are as near.
Exact == 16777216
Ulps  == {1, 2, 4, 8, 16, 32, 64, 128}

Ulp(v) == CHOOSE u \in Ulps : v \div u < Exact /\ (u > 1 => v \div (u \div 2) >= Exact)

Rounded(v, u) ==
  LET below == v \div u
      rest  == v % u
      up    == 2 * rest > u \/ (2 * rest = u /\ below % 2 = 1)
  IN  u * (IF up THEN below + 1 ELSE below)

Float32(v) == Rounded(v, Ulp(v))

GetAmount ==
  IF HasMetadata /\ item[1].value.kind = "number" THEN Float32(item[1].value.of.value) ELSE 0

\* Slip: the layout without a Balance taken to lack its first item.
MpesaReceiptNumberShifted ==
  IF HasMetadata THEN Sprint(item[IF Len(item) = 4 THEN 1 ELSE 2].value) ELSE Empty

MpesaReceiptNumber == IF HasMetadata THEN Sprint(item[2].value) ELSE Empty

Balance == IF HasMetadata THEN Sprint(item[3].value) ELSE Empty

\* getTransactionTime: anything but 14 characters is now; 14 that are no date are an
\* error, which GetTransTime turns into now.
GetTransTime ==
  IF ~HasMetadata THEN "now"
  ELSE LET text == Sprint(item[IF Len(item) = 4 THEN 3 ELSE 4].value)
       IN  IF text.length = 14 /\ text.plain THEN text.of ELSE "now"

\* "%.0f" writes a number in plain digits.
PhoneNumber ==
  IF ~HasMetadata THEN Empty
  ELSE LET v == item[Len(item)].value
       IN  IF v.kind = "number" THEN Plain(v.of.id, v.of.digits) ELSE Sprint(v)

-----------------------------------------------------------------------------

Unread == [read |-> FALSE]

\* A callback comes in.
Init ==
  /\ item \in {<<>>} \cup
       {layout : layout \in UNION {{FiveItems(a, r, d, p), FourItems(a, r, d, p)} :
          a \in Amounts, r \in Receipts, d \in Dates, p \in Phones}}
  /\ fields = Unread

\* The gateway and its callers read it.
Read ==
  /\ fields = Unread
  /\ fields' = [read |-> TRUE, amount |-> GetAmount, receipt |-> MpesaReceiptNumber,
                balance |-> Balance, time |-> GetTransTime, phone |-> PhoneNumber]
  /\ UNCHANGED item

Next == Read

Spec == Init /\ [][Next]_vars

-----------------------------------------------------------------------------

\* The value of the item that has a name.
ValueNamed(name) ==
  LET i == CHOOSE i \in 1..Len(item) : item[i].name = name
  IN  item[i].value.of

\* No further from v than a 16777216th of it, in whole numbers.
Near(amount, v) == amount - v \in -(v \div Exact)..(v \div Exact)

\* Taken by place, the receipt and the phone number are those of the items with these
\* names, in either layout, and so is the amount, exactly if it is less than
\* 16777216 and to a 16777216th of it if not: it becomes a float32 (payload/stk.go:50).
\* What has no items has no receipt, so that firstVal keeps the row's (cmd/app/stk.go:167).
GettersFindTheirItems ==
  fields.read =>
    IF item = <<>>
      THEN fields.receipt = Empty /\ fields.phone = Empty /\ fields.amount = 0
      ELSE /\ fields.receipt = Plain(ValueNamed("MpesaReceiptNumber"), 10)
           /\ Near(fields.amount, ValueNamed("Amount").value)
           /\ fields.phone.plain /\ fields.phone.of = ValueNamed("PhoneNumber").id

\* payload/stk.go:73: "GetTransTime returns the transaction time".
TransTimeIsMpesas ==
  fields.read /\ item # <<>> => fields.time = ValueNamed("TransactionDate").id
=============================================================================
