------------------------ MODULE StkProcessingProofs -------------------------
(***************************************************************************)
(* Proofs about StkProcessing, for any number of transactions, orders and  *)
(* copies: the invariant of the service survives the orders, the processed *)
(* flag says what was ordered, orders find their rows, copies stand.       *)
(***************************************************************************)
EXTENDS StkProcessing, StkServiceProofs

\* A copy, even the one before the first, says nothing the table has not said.
CopyInv(c) ==
  /\ c.receipt # 0 => c.id \in Ids /\ rows[c.id].receipt = c.receipt
  /\ c.resultCode # "blank" \/ c.succeeded \/ c.processed => c.id \in Ids
  /\ CopyStands(c)

\* The inductive invariant: an order by receipt names a receipt some row has, and
\* an order that made the flag what it is has been acknowledged.
PInv ==
  /\ IInv
  /\ ProcessingTypeOK
  /\ ProcessedWasOrdered
  /\ \A o \in orders : o.id = 0 => o.receipt \in Ids /\ rows[o.receipt].receipt = o.receipt
  /\ \A t \in Ids : lastOrder[t] = "YES" => \E o \in carriedOut : ByReceipt(o, t) /\ o.processed
  /\ \A c \in republished \cup {copy} : CopyInv(c)
  /\ \A c \in republished : c.id \in Ids
  /\ copy # NoCopy => copy.id \in Ids

-----------------------------------------------------------------------------

\* A row with a receipt is a paid one, and the receipt is its own.
LEMMA ReceiptFacts ==
  ASSUME IInv, NEW t \in Ids
  PROVE  /\ rows[t].receipt # 0 => rows[t].resultCode = "0" /\ rows[t].receipt = t
         /\ rows[t].resultCode = "0" => rows[t].receipt = t
         /\ rows[t].resultCode # "null" => rows[t].status # "absent"
<1>1. rows[t] \in STKTransaction
  BY DEF IInv, TypeOK, StoreTypeOK
<1>2. rows[t].resultCode \in {"null", "0", "1"}
  BY <1>1 DEF STKTransaction
<1>3. rows[t].status = "absent" => rows[t] = NoRow
  BY DEF IInv, RowInv
<1> QED BY <1>2, <1>3 DEF IInv, ResultIsMpesas, ReceiptId, NoRow

\* A step of the service sets no processed flag, and clears one only on the goroutine's failure branch.
LEMMA ProcessedKept ==
  ASSUME IInv, [Next]_vars, NEW t \in Ids
  PROVE  \/ rows'[t].processed = rows[t].processed
         \/ rows'[t].processed = "NO" /\ rows[t].resultCode = "null"
         \/ rows'[t].processed = "NO" /\ push[t].pc = "failing"
<1>1. rows[t] \in STKTransaction
  BY DEF IInv, TypeOK, StoreTypeOK
<1>2. CASE rows[t].status = "absent" /\ rows'[t] = SubmittedRow
  <2>1. rows[t] = NoRow
    BY <1>2 DEF IInv, RowInv
  <2> QED BY <1>2, <2>1 DEF SubmittedRow, NoRow
<1>3. CASE push[t].pc = "saving" /\ rows'[t] = SavedAnswer(rows[t], CheckoutId(t))
  <2>1. rows[t].resultCode = "null"
    BY <1>3 DEF IInv, RowInv
  <2> QED BY <1>1, <1>3, <2>1 DEF SavedAnswer, STKTransaction
<1>4. CASE push[t].pc = "failing" /\ rows'[t] = SavedFailure(rows[t])
  BY <1>1, <1>4 DEF SavedFailure, STKTransaction
<1>5. ASSUME NEW h \in Handlers, rows'[t] = Recorded(h, rows[t])
      PROVE  rows'[t].processed = rows[t].processed
  BY <1>1, <1>5 DEF Recorded, STKTransaction
<1> QED BY <1>2, <1>3, <1>4, <1>5, RowChange

\* Marking rows that exist as processed or not keeps the service's invariant.
LEMMA MarkingKeeps ==
  ASSUME IInv, NEW S \in SUBSET Ids, NEW v \in YesNo,
         \A t \in S : rows[t].status # "absent",
         rows' = [t \in Ids |-> IF t \in S THEN [rows[t] EXCEPT !.processed = v] ELSE rows[t]],
         UNCHANGED <<cache, mpesaVars, pushVars, gatewayVars>>
  PROVE  IInv'
<1> USE DEF mpesaVars, pushVars, gatewayVars
<1>1. \A t \in Ids : rows[t] \in STKTransaction
  BY DEF IInv, TypeOK, StoreTypeOK
<1>2. \A t \in Ids :
        /\ rows'[t] \in STKTransaction
        /\ rows'[t].status = rows[t].status /\ rows'[t].checkout = rows[t].checkout
        /\ rows'[t].receipt = rows[t].receipt /\ rows'[t].resultCode = rows[t].resultCode
        /\ rows'[t].succeeded = rows[t].succeeded
        /\ rows[t].status = "absent" => rows'[t] = rows[t]
  BY <1>1 DEF STKTransaction
<1>3. TypeOK'
  BY <1>2 DEF IInv, TypeOK, StoreTypeOK, MpesaTypeOK, PushTypeOK, GatewayTypeOK
<1>4. ASSUME NEW u \in Ids PROVE RowInv(u)'
  BY <1>2 DEF IInv, RowInv, Accepted, CheckoutId
<1>5. ResultIsMpesas'
  BY <1>2 DEF IInv, ResultIsMpesas
<1>6. ASSUME NEW h \in Handlers PROVE HandlerInv(h)'
  BY <1>2 DEF IInv, HandlerInv, CallbackReceipt
<1>7. PublishedIsRecorded'
  <2>1. \A m \in published : m.id \in Ids
    BY DEF IInv, TypeOK, GatewayTypeOK, Message
  <2> QED BY <1>2, <2>1 DEF IInv, PublishedIsRecorded
<1> QED BY <1>3, <1>4, <1>5, <1>6, <1>7 DEF IInv

\* The order by the receipt of row t selects row t.
LEMMA SelectedByReceipt ==
  ASSUME IInv, NEW o, NEW t \in Ids, o.id = 0, o.receipt = t, rows[t].receipt = t
  PROVE  Selected(o) = {t}
<1>1. t # 0
  BY IdsFacts
<1>2. \A u \in Ids : rows[u].receipt = t => u = t
  BY <1>1, ReceiptFacts
<1>3. rows[t].status # "absent"
  BY <1>1, ReceiptFacts
<1> QED BY <1>2, <1>3 DEF Selected

\* The order by an id selects nothing.
LEMMA SelectedById ==
  ASSUME NEW o, o.id # 0
  PROVE  Selected(o) = {}
BY IdsFacts DEF Selected

-----------------------------------------------------------------------------

LEMMA InitPInv == ProcessingInit => PInv
<1> SUFFICES ASSUME ProcessingInit PROVE PInv
  OBVIOUS
<1> USE DEF ProcessingInit
<1>1. IInv
  BY InitIInv
<1>2. ProcessingTypeOK
  BY <1>1, ProcessingAssumption
     DEF ProcessingTypeOK, IInv, YesNo, StkTransaction, NoCopy, ProtoStatus
<1>3. ProcessedWasOrdered
  BY DEF ProcessedWasOrdered, Init, StoreInit, NoRow
<1>4. CopyInv(copy)
  BY DEF CopyInv, CopyStands, NoCopy
<1> QED BY <1>1, <1>2, <1>3, <1>4 DEF PInv

\* What stays true of a copy when outcomes stay and orders are only added.
LEMMA CopyKept ==
  ASSUME PInv, carriedOut \subseteq carriedOut', NEW c \in republished \cup {copy},
         \A t \in Ids : rows[t].resultCode # "null" =>
           rows'[t].resultCode = rows[t].resultCode /\ rows'[t].receipt = rows[t].receipt
  PROVE  CopyInv(c)'
<1>1. CopyInv(c) /\ IInv /\ c \in StkTransaction
  BY DEF PInv, ProcessingTypeOK
<1>2. c.resultCode \in {"blank", "0", "1"}
  BY <1>1 DEF StkTransaction
<1>3. c.receipt # 0 => c.id \in Ids /\ rows'[c.id].receipt = c.receipt
  BY <1>1, ReceiptFacts DEF CopyInv
<1>4. c.resultCode # "blank" =>
        rows'[c.id].resultCode = c.resultCode /\ rows'[c.id].receipt = c.receipt
  BY <1>1, <1>2 DEF CopyInv, CopyStands
<1>5. c.succeeded => rows'[c.id].resultCode = "0"
  BY <1>1 DEF CopyInv, CopyStands
<1>6. c.processed => \E o \in carriedOut' : ByReceipt(o, c.id) /\ o.processed
  BY <1>1 DEF CopyInv, CopyStands
<1> QED BY <1>1, <1>3, <1>4, <1>5, <1>6 DEF CopyInv, CopyStands, ByReceipt

\* The steps of the service and the crash, which takes the pending orders.
LEMMA ServiceKeepsPInv ==
  ASSUME PInv, [Next]_vars, orders' \subseteq orders,
         UNCHANGED <<asked, carriedOut, lastOrder, copyVars>>
  PROVE  PInv'
<1> USE DEF copyVars
<1>1. IInv /\ IInv' /\ TypeOK'
  BY NextKeeps DEF PInv, IInv
<1>2. \A t \in Ids : rows[t].resultCode # "null" =>
        rows'[t].resultCode = rows[t].resultCode /\ rows'[t].receipt = rows[t].receipt
  BY <1>1, OutcomeKept
<1>3. ProcessingTypeOK'
  BY <1>1 DEF PInv, ProcessingTypeOK
<1>4. ProcessedWasOrdered'
  <2> SUFFICES ASSUME NEW t \in Ids, rows'[t].processed = "YES"
               PROVE  rows'[t].resultCode = "0" /\ lastOrder[t] = "YES"
    BY DEF ProcessedWasOrdered
  <2>1. rows[t].processed = "YES"
    BY <1>1, ProcessedKept
  <2> QED BY <1>2, <2>1 DEF PInv, ProcessedWasOrdered
<1>5. ASSUME NEW o \in orders', o.id = 0
      PROVE  o.receipt \in Ids /\ rows'[o.receipt].receipt = o.receipt
  <2>1. o.receipt \in Ids /\ rows[o.receipt].receipt = o.receipt /\ o.receipt # 0
    BY <1>5, IdsFacts DEF PInv
  <2> QED BY <1>1, <1>2, <2>1, ReceiptFacts
<1>6. \A c \in republished \cup {copy} : CopyInv(c)'
  BY <1>2, CopyKept
<1> QED BY <1>1, <1>3, <1>4, <1>5, <1>6 DEF PInv, ByReceipt

\* An order by receipt comes from something heard, which the table says too.
LEMMA GiveOrderKeeps ==
  ASSUME PInv, NEW m, NEW o, o \in Order, GiveOrder(m, o)
  PROVE  PInv'
<1> USE DEF GiveOrder, copyVars
<1>1. IInv'
  BY StutterKeeps DEF PInv
<1>2. UNCHANGED rows
  BY DEF vars, storeVars
<1>3. ProcessingTypeOK'
  <2>1. asked' \in 0..MaxOrders /\ orders' \subseteq Order
    BY ProcessingAssumption DEF PInv, ProcessingTypeOK
  <2> QED BY <1>1, <2>1 DEF PInv, ProcessingTypeOK, IInv
<1>4. ProcessedWasOrdered'
  BY <1>2 DEF PInv, ProcessedWasOrdered
<1>5. ASSUME o.id = 0 PROVE o.receipt \in Ids /\ rows[o.receipt].receipt = o.receipt
  <2>1. PICK c \in published \cup republished : m = [id |-> c.id, receipt |-> c.receipt]
    BY DEF Heard
  <2>0. c.id \in Ids
    BY <2>1 DEF PInv, IInv, TypeOK, GatewayTypeOK, Message
  <2>2. o.receipt = m.receipt /\ m.receipt # 0
    BY <1>5, <2>0, <2>1, IdsFacts
  <2>3. CASE c \in published
    <3>1. c.id \in Ids /\ rows[c.id].receipt = c.receipt
      BY <2>3 DEF PInv, IInv, PublishedIsRecorded, TypeOK, GatewayTypeOK, Message
    <3> QED BY <2>1, <2>2, <3>1, ReceiptFacts DEF PInv
  <2>4. CASE c \in republished
    <3>1. CopyInv(c)
      BY <2>4 DEF PInv
    <3> QED BY <2>1, <2>2, <3>1, ReceiptFacts DEF PInv, CopyInv
  <2> QED BY <2>3, <2>4
<1>6. \A c \in republished \cup {copy} : CopyInv(c)'
  BY <1>2, CopyKept
<1> QED BY <1>1, <1>2, <1>3, <1>4, <1>5, <1>6 DEF PInv, ByReceipt

\* An order selects what it names by receipt.
LEMMA SelectedIsNamed ==
  ASSUME PInv, NEW o \in orders
  PROVE  \A t \in Ids : t \in Selected(o) <=> ByReceipt(o, t)
<1>1. CASE o.id # 0
  BY <1>1, SelectedById DEF ByReceipt
<1>2. CASE o.id = 0
  <2>1. o.receipt \in Ids /\ rows[o.receipt].receipt = o.receipt
    BY <1>2 DEF PInv
  <2> QED BY <1>2, <2>1, SelectedByReceipt DEF ByReceipt, ReceiptId, PInv
<1> QED BY <1>1, <1>2

\* Carrying an order out: its own row, if it names the receipt, or none.
LEMMA ProcessKeeps ==
  ASSUME PInv, NEW o \in orders, ProcessStkTransaction(o)
  PROVE  PInv'
<1> USE DEF ProcessStkTransaction, copyVars
<1>0. o \in Order /\ IInv
  BY DEF PInv, ProcessingTypeOK
<1>1. CASE UNCHANGED <<rows, carriedOut, lastOrder>>
  <2>1. UNCHANGED vars
    BY <1>1 DEF vars, storeVars
  <2> QED BY <1>1, <2>1, ServiceKeepsPInv
<1>2. CASE /\ rows' = [t \in Ids |-> IF t \in Selected(o)
                                    THEN [rows[t] EXCEPT !.processed = ProcessedColumn(o)]
                                    ELSE rows[t]]
           /\ carriedOut' = carriedOut \cup {o}
           /\ lastOrder' = [t \in Ids |-> IF ByReceipt(o, t) THEN ProcessedColumn(o)
                                                           ELSE lastOrder[t]]
  <2>1. ProcessedColumn(o) \in YesNo /\ Selected(o) \subseteq Ids
        /\ \A t \in Selected(o) : rows[t].status # "absent"
    BY DEF ProcessedColumn, Selected, YesNo
  <2>2. IInv'
    BY <1>0, <1>2, <2>1, MarkingKeeps
  <2>3. \A t \in Ids : rows[t] \in STKTransaction
    BY <1>0 DEF IInv, TypeOK, StoreTypeOK
  <2>4. \A t \in Ids : /\ rows'[t].resultCode = rows[t].resultCode
                       /\ rows'[t].receipt = rows[t].receipt
    BY <1>2, <2>3 DEF STKTransaction
  <2>5. ProcessingTypeOK'
    BY <1>0, <1>2, <2>1, <2>2 DEF PInv, ProcessingTypeOK, IInv
  <2>6. ASSUME NEW t \in Ids
        PROVE  rows'[t].processed = IF t \in Selected(o) THEN ProcessedColumn(o)
                                                         ELSE rows[t].processed
    BY <1>2, <2>3 DEF STKTransaction
  <2>7. \A t \in Ids : t \in Selected(o) <=> ByReceipt(o, t)
    BY SelectedIsNamed
  <2>8. ASSUME NEW t \in Ids, ByReceipt(o, t) PROVE rows[t].resultCode = "0"
    BY <1>0, <2>8, IdsFacts, ReceiptFacts DEF ByReceipt, ReceiptId, PInv
  <2>9. ProcessedWasOrdered'
    <3> SUFFICES ASSUME NEW t \in Ids, rows'[t].processed = "YES"
                 PROVE  rows'[t].resultCode = "0" /\ lastOrder'[t] = "YES"
      BY DEF ProcessedWasOrdered
    <3>1. CASE ByReceipt(o, t)
      BY <1>2, <2>4, <2>6, <2>7, <2>8, <3>1
    <3>2. CASE ~ByReceipt(o, t)
      BY <1>2, <2>4, <2>6, <2>7, <3>2 DEF PInv, ProcessedWasOrdered
    <3> QED BY <3>1, <3>2
  <2>10. ASSUME NEW t \in Ids, lastOrder'[t] = "YES"
         PROVE  \E a \in carriedOut' : ByReceipt(a, t) /\ a.processed
    BY <1>0, <1>2, <2>10 DEF PInv, ProcessedColumn, Order
  <2>11. \A c \in republished \cup {copy} : CopyInv(c)'
    BY <1>2, <2>4, CopyKept
  <2>12. \A a \in orders' : a.id = 0 => a.receipt \in Ids /\ rows'[a.receipt].receipt = a.receipt
    BY <2>4 DEF PInv
  <2> QED BY <2>2, <2>5, <2>9, <2>10, <2>11, <2>12 DEF PInv, ByReceipt
<1> QED BY <1>1, <1>2

\* A copy that is read says what the row says.
LEMMA KeepKeeps ==
  ASSUME PInv, NEW t \in Ids, Keep(t)
  PROVE  PInv'
<1> USE DEF Keep, orderVars
<1>1. IInv /\ IInv' /\ UNCHANGED rows
  BY StutterKeeps DEF PInv, vars, storeVars
<1>2. rows[t] \in STKTransaction
  BY <1>1 DEF IInv, TypeOK, StoreTypeOK
<1>3. copy' \in StkTransaction
  BY <1>2 DEF ToProto, StkTransaction, STKTransaction, ProtoStatus
<1>4. ProcessingTypeOK'
  <2>1. reads' \in 0..MaxReads
    BY ProcessingAssumption DEF PInv, ProcessingTypeOK
  <2> QED BY <1>1, <1>3, <2>1 DEF PInv, ProcessingTypeOK, IInv
<1>5. ProcessedWasOrdered'
  BY <1>1 DEF PInv, ProcessedWasOrdered
<1>6. CopyInv(ToProto(t))'
  <2>1. /\ ToProto(t).id = t /\ ToProto(t).receipt = rows[t].receipt
        /\ ToProto(t).resultCode # "blank" => ToProto(t).resultCode = rows[t].resultCode
        /\ ToProto(t).succeeded <=> rows[t].succeeded = "YES"
        /\ ToProto(t).processed <=> rows[t].processed = "YES"
    BY DEF ToProto
  <2>2. rows[t].succeeded = "YES" => rows[t].resultCode = "0"
    BY <1>1 DEF IInv, ResultIsMpesas
  <2>3. rows[t].processed = "YES" => \E o \in carriedOut : ByReceipt(o, t) /\ o.processed
    BY DEF PInv, ProcessedWasOrdered
  <2>4. CopyInv(ToProto(t))
    BY <2>1, <2>2, <2>3 DEF CopyInv, CopyStands
  <2> QED BY <1>1, <2>4 DEF CopyInv, CopyStands, ByReceipt, ToProto
<1>7. \A c \in republished : CopyInv(c)'
  BY <1>1, CopyKept
<1>8. copy' = ToProto(t)' /\ copy'.id \in Ids
  BY <1>1 DEF ToProto
<1>9. \A c \in republished' \cup {copy'} : CopyInv(c)'
  BY <1>6, <1>7, <1>8
<1>10. UNCHANGED <<orders, carriedOut, lastOrder, republished>>
  OBVIOUS
<1>11. /\ \A o \in orders' : o.id = 0 => o.receipt \in Ids /\ rows'[o.receipt].receipt = o.receipt
       /\ \A u \in Ids : lastOrder'[u] = "YES" =>
            \E o \in carriedOut' : ByReceipt(o, u) /\ o.processed
       /\ \A c \in republished' : c.id \in Ids
  BY <1>1, <1>10 DEF PInv
<1> HIDE DEF Keep, orderVars
<1> QED BY <1>1, <1>4, <1>5, <1>8, <1>9, <1>11 DEF PInv, ByReceipt

LEMMA PublishKeepsPInv ==
  ASSUME PInv, NEW state, PublishStkTransaction(state)
  PROVE  PInv'
<1> USE DEF PublishStkTransaction, orderVars
<1>1. IInv' /\ UNCHANGED rows
  BY StutterKeeps DEF PInv, vars, storeVars
<1>2. ProcessingTypeOK'
  BY <1>1 DEF PInv, ProcessingTypeOK, IInv
<1>3. ProcessedWasOrdered'
  BY <1>1 DEF PInv, ProcessedWasOrdered
<1>4. \A c \in republished' \cup {copy'} : CopyInv(c)'
  <2>1. \A c \in republished \cup {copy} : CopyInv(c)'
    BY <1>1, CopyKept
  <2> QED BY <2>1
<1>5. \A c \in republished' : c.id \in Ids
  BY DEF PInv
<1> QED BY <1>1, <1>2, <1>3, <1>4, <1>5 DEF PInv, ByReceipt

\* Every step of the whole keeps the invariant.
LEMMA NextPInv == PInv /\ [ProcessingNext]_<<vars, processingVars>> => PInv'
<1> SUFFICES ASSUME PInv, [ProcessingNext]_<<vars, processingVars>> PROVE PInv'
  OBVIOUS
<1> USE DEF processingVars, orderVars, copyVars
<1>1. CASE ServiceStep
  BY <1>1, ServiceKeepsPInv DEF ServiceStep, Next
<1>2. CASE ServiceCrash
  BY <1>2, ServiceKeepsPInv DEF ServiceCrash, Next
<1>3. CASE \E m \in Heard, o \in [n: {asked + 1}, id: Ids \cup {0}, receipt: Ids \cup {0},
                                processed: BOOLEAN] : GiveOrder(m, o)
  <2>1. PICK m \in Heard, o \in [n: {asked + 1}, id: Ids \cup {0}, receipt: Ids \cup {0},
                                 processed: BOOLEAN] : GiveOrder(m, o)
    BY <1>3
  <2>2. asked + 1 \in 1..MaxOrders
    BY <2>1, ProcessingAssumption DEF GiveOrder, PInv, ProcessingTypeOK
  <2>0. o.n = asked + 1 /\ o.id \in Ids \cup {0} /\ o.receipt \in Ids \cup {0}
    BY <2>1 DEF GiveOrder
  <2>3. o.n \in 1..MaxOrders
    BY <2>0, <2>2, Zenon
  <2>6. o.receipt \in Int
    <3>1. o.receipt \in Ids => o.receipt \in Int
      BY IdsFacts
    <3>2. o.receipt \in {0} => o.receipt \in Int
      OBVIOUS
    <3> QED BY <2>0, <3>1, <3>2
  <2>4. o = [n |-> o.n, id |-> o.id, receipt |-> o.receipt, processed |-> o.processed]
        /\ o.processed \in BOOLEAN
    BY <2>1
  <2>5. o \in Order
    BY <2>0, <2>3, <2>4, <2>6 DEF Order
  <2> QED BY <2>1, <2>5, GiveOrderKeeps
<1>4. CASE \E o \in orders : LoseOrder(o)
  BY <1>4, ServiceKeepsPInv DEF LoseOrder
<1>5. CASE \E o \in orders : ProcessStkTransaction(o)
  BY <1>5, ProcessKeeps
<1>6. CASE \/ \E req \in Naming : (req.id # 0 \/ req.receipt # 0) /\ GetStkTransaction(req)
          \/ \E t \in Ids : ReadListed(t)
  <2>1. PICK t \in Ids : Keep(t)
    BY <1>6 DEF GetStkTransaction, ReadListed, Selected
  <2> QED BY <2>1, KeepKeeps
<1>7. CASE \E state \in StkProcessedState : PublishStkTransaction(state)
  BY <1>7, PublishKeepsPInv
<1>8. CASE UNCHANGED <<vars, processingVars>>
  BY <1>8, ServiceKeepsPInv
<1> QED BY <1>1, <1>2, <1>3, <1>4, <1>5, <1>6, <1>7, <1>8 DEF ProcessingNext

-----------------------------------------------------------------------------
(* The theorems.                                                           *)

\* The inductive invariant holds in every reachable state.
THEOREM ProcessingInvariance == ProcessingSpec => []PInv
<1> QED BY InitPInv, NextPInv, PTL DEF ProcessingSpec

\* Every variable of this layer keeps its type.
THEOREM ProcessingTypeCorrect == ProcessingSpec => []ProcessingTypeOK
<1>1. PInv => ProcessingTypeOK
  BY DEF PInv
<1> QED BY <1>1, ProcessingInvariance, PTL

\* Only paid transactions are processed, and only when the last order said so.
THEOREM ProcessedOnlyByOrder == ProcessingSpec => []ProcessedWasOrdered
<1>1. PInv => ProcessedWasOrdered
  BY DEF PInv
<1> QED BY <1>1, ProcessingInvariance, PTL

\* An order by a receipt that was heard of selects the transaction of that receipt.
THEOREM OrdersFindTheirRow == ProcessingSpec => []OrderFindsItsRow
<1>1. ASSUME PInv, NEW o \in orders, o.id = 0
      PROVE  Selected(o) = {o.receipt} /\ o.receipt \in Ids
  BY <1>1, SelectedByReceipt DEF PInv
<1>2. PInv => OrderFindsItsRow
  BY <1>1 DEF OrderFindsItsRow, ReceiptId
<1> QED BY <1>2, ProcessingInvariance, PTL

\* What an administrator publishes of an outcome stands, however old its copy is.
THEOREM CopiesStand == ProcessingSpec => []RepublishedStands
<1>1. PInv => RepublishedStands
  BY DEF PInv, CopyInv, RepublishedStands
<1> QED BY <1>1, ProcessingInvariance, PTL

\* When no call of the goroutine can fail once its row can be found, the flag is what
\* the last order by receipt made it.
THEOREM FlagIsLastOrdered ==
  ASSUME LateFaults \cap Faults = {}
  PROVE  ProcessingSpec => []ProcessedIsLastOrdered
<1> DEFINE QInv == PInv /\ ProcessedIsLastOrdered
<1>1. ProcessingInit => QInv
  BY InitPInv DEF ProcessingInit, ProcessedIsLastOrdered, Init, StoreInit, NoRow
<1>2. QInv /\ [ProcessingNext]_<<vars, processingVars>> => QInv'
  <2> SUFFICES ASSUME QInv, [ProcessingNext]_<<vars, processingVars>>
               PROVE  ProcessedIsLastOrdered'
    BY NextPInv
  <2> SUFFICES ASSUME NEW t \in Ids PROVE rows'[t].processed = lastOrder'[t]
    BY DEF ProcessedIsLastOrdered
  <2>1. /\ rows[t].processed = lastOrder[t] /\ lastOrder[t] \in {"YES", "NO"}
        /\ rows[t].processed = "YES" => rows[t].resultCode = "0"
        /\ rows[t] \in STKTransaction
    BY DEF PInv, IInv, TypeOK, StoreTypeOK, ProcessingTypeOK, YesNo,
           ProcessedIsLastOrdered, ProcessedWasOrdered
  <2>2. rows[t].resultCode # "null" => push[t].pc # "failing"
    BY DEF PInv, IInv, RowInv
  <2>3. CASE [Next]_vars /\ lastOrder' = lastOrder
    BY <2>1, <2>2, <2>3, ProcessedKept DEF PInv
  <2>4. CASE rows' = rows /\ lastOrder' = lastOrder
    BY <2>1, <2>4
  <2>5. ASSUME NEW o \in orders, ProcessStkTransaction(o)
        PROVE  rows'[t].processed = lastOrder'[t]
    <3>1. t \in Selected(o) <=> ByReceipt(o, t)
      BY SelectedIsNamed
    <3>2. CASE t \in Selected(o)
      BY <2>1, <2>5, <3>1, <3>2 DEF ProcessStkTransaction, STKTransaction
    <3>3. CASE t \notin Selected(o)
      BY <2>1, <2>5, <3>1, <3>3 DEF ProcessStkTransaction, STKTransaction
    <3> QED BY <3>2, <3>3
  <2>6. CASE ServiceStep \/ ServiceCrash
    BY <2>3, <2>6 DEF ServiceStep, ServiceCrash, Next, processingVars
  <2>7. ASSUME ~ServiceStep, ~ServiceCrash, ~ \E o \in orders : ProcessStkTransaction(o)
        PROVE  rows' = rows /\ lastOrder' = lastOrder
    BY <2>7 DEF ProcessingNext, GiveOrder, LoseOrder, GetStkTransaction, ReadListed, Keep,
                PublishStkTransaction, processingVars, orderVars, vars, storeVars
  <2> QED BY <2>4, <2>5, <2>6, <2>7
<1>3. QInv => ProcessedIsLastOrdered
  OBVIOUS
<1> QED BY <1>1, <1>2, <1>3, PTL DEF ProcessingSpec
-----------------------------------------------------------------------------
(* What the service alone promises, the whole promises too: a step of the      *)
(* whole is one of the service, or marks the one row an order names.           *)

\* The row whose receipt the order names is marked, and nothing else happens.
Marks(o) ==
  /\ orders' = orders \ {o}
  /\ \A t \in Ids : rows'[t] = IF ByReceipt(o, t)
                                 THEN [rows[t] EXCEPT !.processed = ProcessedColumn(o)]
                                 ELSE rows[t]
  /\ UNCHANGED <<mpesaVars, pushVars, gatewayVars>>

LEMMA WholeStep ==
  ASSUME PInv, [ProcessingNext]_<<vars, processingVars>>
  PROVE  [Next]_vars \/ \E o \in orders : Marks(o)
<1>1. CASE ServiceStep \/ ServiceCrash
  BY <1>1 DEF ServiceStep, ServiceCrash, Next
<1>2. ASSUME NEW o \in orders, ProcessStkTransaction(o)
      PROVE  UNCHANGED vars \/ Marks(o)
  <2>1. CASE UNCHANGED rows
    BY <1>2, <2>1 DEF ProcessStkTransaction, vars, storeVars
  <2>2. CASE rows' = [t \in Ids |-> IF t \in Selected(o)
                                    THEN [rows[t] EXCEPT !.processed = ProcessedColumn(o)]
                                    ELSE rows[t]]
    BY <1>2, <2>2, SelectedIsNamed DEF ProcessStkTransaction, Marks
  <2> QED BY <1>2, <2>1, <2>2 DEF ProcessStkTransaction
<1>3. ASSUME ~ServiceStep, ~ServiceCrash, ~ \E o \in orders : ProcessStkTransaction(o)
      PROVE  UNCHANGED vars
  BY <1>3 DEF ProcessingNext, GiveOrder, LoseOrder, GetStkTransaction, ReadListed, Keep,
              PublishStkTransaction
<1> QED BY <1>1, <1>2, <1>3

\* Marking touches no column but the flag.
LEMMA MarksFacts ==
  ASSUME IInv, NEW o, Marks(o), NEW t \in Ids
  PROVE  /\ rows[t] \in STKTransaction
         /\ rows'[t].status = rows[t].status /\ rows'[t].checkout = rows[t].checkout
         /\ rows'[t].receipt = rows[t].receipt /\ rows'[t].resultCode = rows[t].resultCode
         /\ rows'[t].succeeded = rows[t].succeeded
         /\ rows'[t].processed = IF ByReceipt(o, t) THEN ProcessedColumn(o)
                                                    ELSE rows[t].processed
<1>1. rows[t] \in STKTransaction
  BY DEF IInv, TypeOK, StoreTypeOK
<1> QED BY <1>1 DEF Marks, STKTransaction

\* Orders and copies leave a recorded outcome alone, as the service does.
THEOREM ResultsStayFinal == ProcessingSpec => ResultIsFinal
<1>1. ASSUME PInv, [ProcessingNext]_<<vars, processingVars>>,
             NEW t \in Ids, rows[t].resultCode # "null"
      PROVE  rows'[t].resultCode = rows[t].resultCode /\ rows'[t].receipt = rows[t].receipt
  BY <1>1, WholeStep, OutcomeKept, MarksFacts DEF PInv
<1>2. PInv /\ [ProcessingNext]_<<vars, processingVars>> =>
        [\A t \in Ids : rows[t].resultCode # "null" =>
           /\ rows'[t].resultCode = rows[t].resultCode
           /\ rows'[t].receipt = rows[t].receipt]_vars
  BY <1>1
<1> QED BY <1>2, ProcessingInvariance, PTL DEF ProcessingSpec, ResultIsFinal

\* No order and no copy takes a final status away: only the late failure does.
THEOREM StatusStillLostOnlyLate == ProcessingSpec => StatusLostOnlyToLateFailure
<1>1. ASSUME PInv, [ProcessingNext]_<<vars, processingVars>>,
             NEW t \in Ids, Final(rows[t].status), ~Final(rows'[t].status)
      PROVE  push[t].pc = "failing" /\ rows'[t].status = "STK_REQUEST_FAILED"
  BY <1>1, WholeStep, StatusKept, MarksFacts DEF PInv
<1>2. PInv /\ [ProcessingNext]_<<vars, processingVars>> =>
        [\A t \in Ids : Final(rows[t].status) /\ ~Final(rows'[t].status) =>
           /\ push[t].pc = "failing"
           /\ rows'[t].status = "STK_REQUEST_FAILED"]_vars
  BY <1>1
<1> QED BY <1>2, ProcessingInvariance, PTL DEF ProcessingSpec, StatusLostOnlyToLateFailure

\* When no call of the goroutine can fail once its row can be found, a final status
\* stays final whatever is ordered and read meanwhile.
THEOREM FinalStatusStaysFinal ==
  ASSUME LateFaults \cap Faults = {}
  PROVE  ProcessingSpec => FinalStatusStays
<1>1. ASSUME PInv, [ProcessingNext]_<<vars, processingVars>>,
             NEW t \in Ids, Final(rows[t].status)
      PROVE  rows'[t].status = rows[t].status
  BY <1>1, WholeStep, StatusKept, FinalFacts, MarksFacts DEF PInv
<1>2. PInv /\ [ProcessingNext]_<<vars, processingVars>> =>
        [\A t \in Ids : Final(rows[t].status) => rows'[t].status = rows[t].status]_vars
  BY <1>1
<1> QED BY <1>2, ProcessingInvariance, PTL DEF ProcessingSpec, FinalStatusStays

\* The flag changes by an order of the row's own receipt, or is lost to the failure
\* branch of the goroutine that sent the push.
THEOREM FlagFollowsItsOrders == ProcessingSpec => FlagFollowsOrders
<1>1. ASSUME PInv, [ProcessingNext]_<<vars, processingVars>>,
             NEW t \in Ids, rows'[t].processed # rows[t].processed
      PROVE  \/ \E o \in orders \ orders' :
                  ByReceipt(o, t) /\ rows'[t].processed = ProcessedColumn(o)
             \/ push[t].pc = "failing" /\ rows'[t].processed = "NO"
  <2>1. CASE [Next]_vars
    <3>1. rows[t].resultCode = "null" => rows[t].processed = "NO"
      BY <1>1 DEF PInv, ProcessedWasOrdered, IInv, TypeOK, StoreTypeOK, STKTransaction, YesNo
    <3> QED BY <1>1, <2>1, <3>1, ProcessedKept DEF PInv
  <2>2. ASSUME NEW o \in orders, Marks(o)
        PROVE  o \in orders \ orders' /\ ByReceipt(o, t)
               /\ rows'[t].processed = ProcessedColumn(o)
    BY <1>1, <2>2, MarksFacts DEF PInv, Marks
  <2> QED BY <1>1, <2>1, <2>2, WholeStep
<1>2. PInv /\ [ProcessingNext]_<<vars, processingVars>> =>
        [\A t \in Ids : rows'[t].processed # rows[t].processed =>
           \/ \E o \in orders \ orders' :
                ByReceipt(o, t) /\ rows'[t].processed = ProcessedColumn(o)
           \/ push[t].pc = "failing" /\ rows'[t].processed = "NO"]_<<vars, processingVars>>
  BY <1>1
<1> QED BY <1>2, ProcessingInvariance, PTL DEF ProcessingSpec, FlagFollowsOrders

\* A marked row is the same entry of the ledger.
LEMMA MarksStutter ==
  ASSUME IInv, IInv', NEW o, Marks(o)
  PROVE  UNCHANGED Ledger!ledgerVars
<1>1. ASSUME NEW t \in Ids PROVE EntryOf(t)' = EntryOf(t)
  BY MarksFacts, SameEntry DEF IInv, TypeOK, StoreTypeOK
<1>2. ASSUME NEW t \in Ids PROVE AnswerOf(t)' = AnswerOf(t)
  BY DEF Marks, mpesaVars, AnswerOf, Answered
<1>3. UNCHANGED published
  BY DEF Marks, gatewayVars
<1> QED BY <1>1, <1>2, <1>3, LedgerStutter

\* Consumers and administrators add nothing to the ledger: the whole implements it.
THEOREM ProcessingKeepsLedger == ProcessingSpec => ImplementsLedger
<1>1. ProcessingInit => Ledger!LedgerInit
  BY InitLedger DEF ProcessingInit
<1>2. PInv /\ PInv' /\ [ProcessingNext]_<<vars, processingVars>>
        => [Ledger!LedgerNext]_Ledger!ledgerVars
  BY WholeStep, NextLedger, MarksStutter DEF PInv
<1> QED BY <1>1, <1>2, ProcessingInvariance, PTL
    DEF ProcessingSpec, ImplementsLedger, Ledger!LedgerSpec
=============================================================================
