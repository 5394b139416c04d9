----------------------- MODULE CallbackMetadataProofs -----------------------
(***************************************************************************)
(* Proofs about CallbackMetadata, for numbers of any width, amounts less   *)
(* than 2^31 and any texts: the getters the gateway relies on find their   *)
(* items in both layouts, the amount to within what a float32 holds, and   *)
(* the one of the transaction time never does.                             *)
(***************************************************************************)
EXTENDS CallbackMetadata, TLAPS

Layouts ==
  UNION {{FiveItems(a, r, d, p), FourItems(a, r, d, p)} :
    a \in Amounts, r \in Receipts, d \in Dates, p \in Phones}

\* What the getters return of the items they have read.
Readings ==
  [read |-> TRUE, amount |-> GetAmount, receipt |-> MpesaReceiptNumber,
   balance |-> Balance, time |-> GetTransTime, phone |-> PhoneNumber]

\* The inductive invariant: a callback is empty or in a layout, and its fields are
\* unread or what the getters return.
MInv ==
  /\ item = <<>> \/ item \in Layouts
  /\ fields = Unread \/ fields = Readings

LEMMA MetadataInvariance == Spec => []MInv
<1>1. Init => MInv
  BY DEF Init, MInv, Layouts
<1>2. MInv /\ [Next]_vars => MInv'
  BY DEF MInv, Next, Read, vars, Readings, GetAmount, MpesaReceiptNumber, Balance,
         GetTransTime, PhoneNumber, HasMetadata
<1> QED BY <1>1, <1>2, PTL DEF Spec

\* In a layout, the places the getters take and the names found there.
LEMMA Places ==
  ASSUME item \in Layouts
  PROVE  \E a \in Amounts, r \in Receipts, d \in Dates, p \in Phones :
           /\ Len(item) \in {4, 5} /\ item # <<>>
           /\ item[1] = Named("Amount", Number(a))
           /\ item[2] = Named("MpesaReceiptNumber", Text(r))
           /\ item[Len(item) - 1] = Named("TransactionDate", Number(d))
           /\ item[Len(item)] = Named("PhoneNumber", Number(p))
           /\ Len(item) = 5 => item[3].name = "Balance"
<1>1. PICK a \in Amounts, r \in Receipts, d \in Dates, p \in Phones :
        item = FiveItems(a, r, d, p) \/ item = FourItems(a, r, d, p)
  BY DEF Layouts
<1>2. CASE item = FiveItems(a, r, d, p)
  BY <1>2 DEF FiveItems, Named
<1>3. CASE item = FourItems(a, r, d, p)
  BY <1>3 DEF FourItems
<1> QED BY <1>1, <1>2, <1>3

\* Names are of one item each, so that choosing by name is choosing that item.
LEMMA ValuesByName ==
  ASSUME item \in Layouts
  PROVE  /\ ValueNamed("Amount") = item[1].value.of
         /\ ValueNamed("MpesaReceiptNumber") = item[2].value.of
         /\ ValueNamed("TransactionDate") = item[Len(item) - 1].value.of
         /\ ValueNamed("PhoneNumber") = item[Len(item)].value.of
<1>1. /\ Len(item) \in {4, 5}
      /\ item[1].name = "Amount" /\ item[2].name = "MpesaReceiptNumber"
      /\ item[Len(item) - 1].name = "TransactionDate" /\ item[Len(item)].name = "PhoneNumber"
      /\ Len(item) = 5 => item[3].name = "Balance"
  <2>1. \A name, value : Named(name, value).name = name
    BY DEF Named
  <2> QED BY <2>1, Places
<1>2. ASSUME NEW i \in 1..Len(item)
      PROVE  /\ item[i].name = "Amount" <=> i = 1
             /\ item[i].name = "MpesaReceiptNumber" <=> i = 2
             /\ item[i].name = "TransactionDate" <=> i = Len(item) - 1
             /\ item[i].name = "PhoneNumber" <=> i = Len(item)
  <2>1. CASE Len(item) = 4
    <3>1. i \in {1, 2, 3, 4}
      BY <2>1
    <3> QED BY <1>1, <2>1, <3>1
  <2>2. CASE Len(item) = 5
    <3>1. i \in {1, 2, 3, 4, 5}
      BY <2>2
    <3> QED BY <1>1, <2>2, <3>1
  <2> QED BY <1>1, <2>1, <2>2
<1>3. 1 \in 1..Len(item) /\ 2 \in 1..Len(item) /\ Len(item) - 1 \in 1..Len(item)
      /\ Len(item) \in 1..Len(item)
  BY <1>1
<1>4. /\ (CHOOSE i \in 1..Len(item) : item[i].name = "Amount") = 1
      /\ (CHOOSE i \in 1..Len(item) : item[i].name = "MpesaReceiptNumber") = 2
      /\ (CHOOSE i \in 1..Len(item) : item[i].name = "TransactionDate") = Len(item) - 1
      /\ (CHOOSE i \in 1..Len(item) : item[i].name = "PhoneNumber") = Len(item)
  BY <1>2, <1>3
<1> QED BY <1>4 DEF ValueNamed

\* Rounding moves a number by half a unit at the most.
LEMMA RoundedIsNear ==
  ASSUME NEW v \in Nat, NEW u \in Ulps
  PROVE  /\ Rounded(v, u) \in Int
         /\ 2 * (Rounded(v, u) - v) \in -u..u
<1> DEFINE below == v \div u
           rest  == v % u
<1>1. u \in Nat /\ u > 0
  BY DEF Ulps
<1>2. below \in Nat /\ rest \in 0..u - 1 /\ v = u * below + rest
  <2>1. CASE u = 1
    BY <2>1
  <2>2. CASE u = 2
    BY <2>2
  <2>3. CASE u = 4
    BY <2>3
  <2>4. CASE u = 8
    BY <2>4
  <2>5. CASE u = 16
    BY <2>5
  <2>6. CASE u = 32
    BY <2>6
  <2>7. CASE u = 64
    BY <2>7
  <2>8. CASE u = 128
    BY <2>8
  <2> QED BY <2>1, <2>2, <2>3, <2>4, <2>5, <2>6, <2>7, <2>8 DEF Ulps
<1>3. \/ Rounded(v, u) = u * (below + 1) /\ 2 * rest >= u
      \/ Rounded(v, u) = u * below /\ 2 * rest <= u
  <2>1. CASE ~(2 * rest > u \/ (2 * rest = u /\ below % 2 = 1))
    <3>1. Rounded(v, u) = u * below
      BY <2>1 DEF Rounded
    <3>2. 2 * rest <= u
      <4> HIDE DEF rest, below
      <4> QED BY <1>1, <1>2, <2>1
    <3> QED BY <3>1, <3>2
  <2>2. 2 * rest > u \/ (2 * rest = u /\ below % 2 = 1) => 2 * rest >= u
    <3> HIDE DEF rest, below
    <3> QED BY <1>1, <1>2
  <2>3. CASE 2 * rest > u \/ (2 * rest = u /\ below % 2 = 1)
    <3>1. Rounded(v, u) = u * (below + 1)
      BY <2>3 DEF Rounded
    <3> QED BY <2>2, <2>3, <3>1
  <2> HIDE DEF rest, below
  <2> QED BY <2>1, <2>3, Zenon
<1> HIDE DEF below, rest
<1>4. CASE Rounded(v, u) = u * (below + 1) /\ 2 * rest >= u
  <2>1. u * (below + 1) = u * below + u
    BY <1>1, <1>2
  <2>2. u * below \in Nat
    BY <1>1, <1>2
  <2> QED BY <1>1, <1>2, <1>4, <2>1, <2>2
<1>5. CASE Rounded(v, u) = u * below /\ 2 * rest <= u
  <2>1. u * below \in Nat
    BY <1>1, <1>2
  <2> QED BY <1>1, <1>2, <1>5, <2>1
<1> QED BY <1>3, <1>4, <1>5

\* Every amount has its unit, and half of it is no more than a 16777216th.
LEMMA UlpFacts ==
  ASSUME NEW v \in Nat, v <= MaxAmount
  PROVE  Ulp(v) \in Ulps /\ Ulp(v) \div 2 <= v \div Exact
<1>0. v \in Nat /\ v <= 2147483583
  BY SMT DEF MaxAmount
<1> DEFINE IsUlp(u) == v \div u < Exact /\ (u > 1 => v \div (u \div 2) >= Exact)
<1>1. \E u \in Ulps : IsUlp(u)
  <2>1. CASE v < 16777216
    BY <1>0, <2>1, SMT DEF Ulps, Exact
  <2>2. CASE 16777216 <= v /\ v < 33554432
    <3>1. v \div 2 < Exact /\ v \div 1 >= Exact /\ 2 \div 2 = 1
      BY <1>0, <2>2, SMT DEF Exact
    <3> QED BY <3>1, SMT DEF Ulps
  <2>3. CASE 33554432 <= v /\ v < 67108864
    <3>1. v \div 4 < Exact /\ v \div 2 >= Exact /\ 4 \div 2 = 2
      BY <1>0, <2>3, SMT DEF Exact
    <3> QED BY <3>1, SMT DEF Ulps
  <2>4. CASE 67108864 <= v /\ v < 134217728
    <3>1. v \div 8 < Exact /\ v \div 4 >= Exact /\ 8 \div 2 = 4
      BY <1>0, <2>4, SMT DEF Exact
    <3> QED BY <3>1, SMT DEF Ulps
  <2>5. CASE 134217728 <= v /\ v < 268435456
    <3>1. v \div 16 < Exact /\ v \div 8 >= Exact /\ 16 \div 2 = 8
      BY <1>0, <2>5, SMT DEF Exact
    <3> QED BY <3>1, SMT DEF Ulps
  <2>6. CASE 268435456 <= v /\ v < 536870912
    <3>1. v \div 32 < Exact /\ v \div 16 >= Exact /\ 32 \div 2 = 16
      BY <1>0, <2>6, SMT DEF Exact
    <3> QED BY <3>1, SMT DEF Ulps
  <2>7. CASE 536870912 <= v /\ v < 1073741824
    <3>1. v \div 64 < Exact /\ v \div 32 >= Exact /\ 64 \div 2 = 32
      BY <1>0, <2>7, SMT DEF Exact
    <3> QED BY <3>1, SMT DEF Ulps
  <2>8. CASE 1073741824 <= v
    <3>1. v \div 128 < Exact /\ v \div 64 >= Exact /\ 128 \div 2 = 64
      BY <1>0, <2>8, SMT DEF Exact
    <3> QED BY <3>1, SMT DEF Ulps
  <2> QED BY <2>1, <2>2, <2>3, <2>4, <2>5, <2>6, <2>7, <2>8, <1>0, SMT
<1>2. Ulp(v) = CHOOSE u \in Ulps : IsUlp(u)
  BY DEF Ulp
<1>3. Ulp(v) \in Ulps /\ IsUlp(Ulp(v))
  <2> HIDE DEF IsUlp
  <2> QED BY <1>1, <1>2
<1>4. ASSUME NEW u \in Ulps, IsUlp(u) PROVE u \div 2 <= v \div Exact
  BY <1>0, <1>4, SMT DEF Ulps, Exact
<1> QED BY <1>3, <1>4, SMT

\* The float32 of an amount is no further from it than a 16777216th.
LEMMA Float32IsNear ==
  ASSUME NEW v \in Nat, v <= MaxAmount
  PROVE  Near(Float32(v), v)
<1>1. Ulp(v) \in Ulps /\ Ulp(v) \div 2 <= v \div Exact /\ v \in Nat
  BY UlpFacts, SMT
<1>2. Float32(v) \in Int /\ 2 * (Float32(v) - v) \in -Ulp(v)..Ulp(v)
  BY <1>1, RoundedIsNear, SMT DEF Float32
<1>3. v \div Exact \in Nat
  BY <1>1, SMT DEF Exact
<1>4. Float32(v) - v \in -(Ulp(v) \div 2)..(Ulp(v) \div 2)
  BY <1>1, <1>2, SMT DEF Ulps
<1>5. Ulp(v) \div 2 \in Nat
  BY <1>1, SMT DEF Ulps
<1> QED BY <1>1, <1>2, <1>3, <1>4, <1>5, SMT DEF Near

\* The receipt and the phone number are those of the items of these names, and the
\* amount is as near as a float32 comes to that of its item (pkg/payload/stk.go:37-113),
\* whatever the layout and the numbers.
THEOREM GettersAreRight == Spec => []GettersFindTheirItems
<1>1. ASSUME MInv, fields.read PROVE GettersFindTheirItems
  <2>1. fields = Readings
    BY <1>1 DEF MInv, Unread
  <2>2. CASE item = <<>>
    BY <2>1, <2>2 DEF GettersFindTheirItems, Readings, MpesaReceiptNumber, PhoneNumber,
                      GetAmount, HasMetadata
  <2>3. CASE item # <<>>
    <3>1. item \in Layouts
      BY <1>1, <2>3 DEF MInv
    <3>2. PICK a \in Amounts, r \in Receipts, p \in Phones :
            /\ Len(item) \in {4, 5}
            /\ item[1] = Named("Amount", Number(a))
            /\ item[2] = Named("MpesaReceiptNumber", Text(r))
            /\ item[Len(item)] = Named("PhoneNumber", Number(p))
      BY <3>1, Places
    <3>3. fields.receipt = Plain(ValueNamed("MpesaReceiptNumber"), 10)
      BY <2>1, <3>1, <3>2, ValuesByName
         DEF Readings, MpesaReceiptNumber, HasMetadata, Sprint, Named, Text
    <3>4. Near(fields.amount, ValueNamed("Amount").value)
      <4>1. fields.amount = Float32(a.value) /\ ValueNamed("Amount") = a
        BY <2>1, <3>1, <3>2, ValuesByName DEF Readings, GetAmount, HasMetadata, Named, Number
      <4> QED BY <4>1, MetadataAssumption, Float32IsNear
    <3>5. fields.phone.plain /\ fields.phone.of = ValueNamed("PhoneNumber").id
      BY <2>1, <3>1, <3>2, ValuesByName
         DEF Readings, PhoneNumber, HasMetadata, Named, Number, Plain
    <3> QED BY <2>3, <3>3, <3>4, <3>5 DEF GettersFindTheirItems
  <2> QED BY <2>2, <2>3
<1>2. MInv => GettersFindTheirItems
  BY <1>1 DEF GettersFindTheirItems
<1> QED BY <1>2, MetadataInvariance, PTL

\* The time is the moment of reading, of every callback there is: a date of 14 digits
\* is never printed in 14 plain ones (pkg/payload/stk.go:80-92), which is why
\* StkListing has a callback move its row to the time on the clock.
THEOREM TransTimeIsTheMoment == Spec => [](fields.read => fields.time = "now")
<1>1. ASSUME MInv, fields.read PROVE fields.time = "now"
  <2>1. fields.time = GetTransTime
    BY <1>1 DEF MInv, Unread, Readings
  <2>2. CASE item = <<>>
    BY <2>1, <2>2 DEF GetTransTime, HasMetadata
  <2>3. CASE item # <<>>
    <3>1. PICK d \in Dates : /\ Len(item) \in {4, 5}
                             /\ item[Len(item) - 1] = Named("TransactionDate", Number(d))
      BY <1>1, <2>3, Places DEF MInv
    <3>2. (IF Len(item) = 4 THEN 3 ELSE 4) = Len(item) - 1
      BY <3>1
    <3>3. ~Sprint(Number(d)).plain
      <4>1. d.digits = 14
        BY MetadataAssumption
      <4>2. Number(d).kind = "number" /\ Number(d).of = d
        BY DEF Number
      <4> QED BY <4>1, <4>2 DEF Sprint
    <3>4. item[IF Len(item) = 4 THEN 3 ELSE 4].value = Number(d)
      <4>1. \A name, value : Named(name, value).value = value
        BY DEF Named
      <4>2. item[IF Len(item) = 4 THEN 3 ELSE 4] = item[Len(item) - 1]
        BY <3>2
      <4> QED BY <3>1, <4>1, <4>2
    <3>5. ~Sprint(item[IF Len(item) = 4 THEN 3 ELSE 4].value).plain
      BY <3>3, <3>4
    <3>6. GetTransTime = "now"
      BY <3>5 DEF GetTransTime
    <3> QED BY <2>1, <3>6
  <2> QED BY <2>2, <2>3
<1>2. MInv => (fields.read => fields.time = "now")
  BY <1>1
<1> QED BY <1>2, MetadataInvariance, PTL
=============================================================================
