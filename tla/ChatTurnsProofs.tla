-------------------------- MODULE ChatTurnsProofs --------------------------
(***************************************************************************)
(* Proofs about ChatTurns, for any set of calls, any number of rows and    *)
(* any number of calls made, however they overlap; and about chats whose   *)
(* calls come one by one.                                                  *)
(***************************************************************************)
EXTENDS MCChatTurns, SequenceTheorems, FiniteSetTheorems, TLAPS

RowRec == [role : {"user", "assistant"}, content : Seq(Nat), gone : BOOLEAN, at : Nat]

EditRec == [kind : {"user_edit", "assistant_regen"}, msg : Nat, old : Seq(Nat),
            new : Seq(Nat), from : Nat, to : Nat, at : Nat]

CallRec == [op : {"none", "send", "regenerate", "continue", "edit"},
            at : {"idle", "user", "draft", "last", "before", "reset", "max", "tx",
                  "upto", "stream", "record"},
            n : Nat, row : Nat, old : Seq(Nat), max : Nat, stamp : Nat,
            prompt : SUBSET Nat]

Typed ==
    /\ rows \in Seq(RowRec) /\ past \in Seq(SUBSET Nat) /\ Len(past) = Len(rows)
    /\ edits \in Seq(EditRec)
    /\ calls \in [Call -> CallRec]
    /\ clock \in Nat /\ ops \in Nat

\* Calls that work on an answer, and edits that have not written yet.
HoldsAnswer(c) == calls[c].at \in {"last", "before", "reset", "stream", "record"}
EditsUser(c) == calls[c].at \in {"max", "tx", "upto"}

(* What calls and records point at exists, and a call only gets to where its
   operation goes. *)
CallPointed(c) ==
    /\ calls[c].max <= Len(rows) /\ calls[c].row <= Len(rows)
    /\ HoldsAnswer(c) =>
          calls[c].row \in DOMAIN rows /\ rows[calls[c].row].role = "assistant"
    /\ EditsUser(c) =>
          /\ calls[c].row \in DOMAIN rows /\ rows[calls[c].row].role = "user"
          /\ calls[c].op = "edit"
    /\ calls[c].at \in {"user", "draft"} => calls[c].op \in {"send", "edit"}
    /\ calls[c].at \in {"last", "before"} => calls[c].op \in {"regenerate", "continue"}
    /\ calls[c].at \in {"reset", "record"} => calls[c].op = "regenerate"

Pointed ==
    /\ \A k \in DOMAIN edits : edits[k].to <= Len(rows)
    /\ \A c \in Call : CallPointed(c)

Base == Typed /\ Pointed

-----------------------------------------------------------------------------
(* Type correctness, with what each kind of write does to each row. *)

LEMMA TypedInit == Init => Typed
BY DEF Init, Typed, CallRec, Idle

LEMMA BeginEffect ==
    ASSUME Typed, NEW c \in Call, NEW v \in CallRec, Begin(c, v)
    PROVE  /\ calls' \in [Call -> CallRec] /\ ops' \in Nat
           /\ \A d \in Call \ {c} : calls'[d] = calls[d]
           /\ calls[c] = Idle /\ calls'[c].n = ops + 1
           /\ calls'[c].op = v.op /\ calls'[c].at = v.at /\ calls'[c].row = v.row
           /\ calls'[c].old = v.old /\ calls'[c].max = v.max
<1> PICK m \in Nat : m = ops + 1
  BY DEF Typed
<1> DEFINE w == [v EXCEPT !.n = m]
<1>1. w \in CallRec
  BY DEF CallRec
<1>2. calls' = [calls EXCEPT ![c] = w] /\ ops' = ops + 1 /\ calls[c] = Idle
  BY DEF Begin
<1>3. /\ w.n = m
      /\ w.op = v.op /\ w.at = v.at /\ w.row = v.row /\ w.old = v.old /\ w.max = v.max
  BY DEF CallRec
<1> HIDE DEF w
<1> QED
  BY <1>1, <1>2, <1>3 DEF Typed

\* The call c goes on at a statement, and keeps what it knows but for row and max.
Moved(c, at, row, max) ==
    /\ calls' \in [Call -> CallRec]
    /\ \A d \in Call \ {c} : calls'[d] = calls[d]
    /\ calls'[c].at = at /\ calls'[c].row = row /\ calls'[c].max = max
    /\ calls'[c].op = calls[c].op /\ calls'[c].n = calls[c].n
    /\ calls'[c].old = calls[c].old

At == {"user", "draft", "last", "before", "reset", "max", "tx", "upto", "stream", "record"}

LEMMA GoEffect ==
    ASSUME Typed, NEW c \in Call, NEW at \in At, Go(c, at)
    PROVE  Moved(c, at, calls[c].row, calls[c].max)
<1> DEFINE w == [calls[c] EXCEPT !.at = at]
<1>1. w \in CallRec
  BY DEF Typed, CallRec, At
<1>2. calls' = [calls EXCEPT ![c] = w]
  BY DEF Go
<1>3. /\ w.at = at /\ w.op = calls[c].op /\ w.n = calls[c].n
      /\ w.row = calls[c].row /\ w.old = calls[c].old /\ w.max = calls[c].max
  BY DEF Typed, CallRec
<1> HIDE DEF w
<1> QED
  BY <1>1, <1>2, <1>3 DEF Typed, Moved

LEMMA AskEffect ==
    ASSUME Typed, NEW c \in Call, NEW at \in At, NEW prompt \in SUBSET Nat,
           calls' = [calls EXCEPT ![c].at = at, ![c].prompt = prompt]
    PROVE  Moved(c, at, calls[c].row, calls[c].max)
<1> DEFINE w == [calls[c] EXCEPT !.at = at, !.prompt = prompt]
<1>1. w \in CallRec
  BY DEF Typed, CallRec, At
<1>2. calls' = [calls EXCEPT ![c] = w]
  OBVIOUS
<1>3. /\ w.at = at /\ w.op = calls[c].op /\ w.n = calls[c].n
      /\ w.row = calls[c].row /\ w.old = calls[c].old /\ w.max = calls[c].max
  BY DEF Typed, CallRec
<1> HIDE DEF w
<1> QED
  BY <1>1, <1>2, <1>3 DEF Typed, Moved

LEMMA DraftEffect ==
    ASSUME Typed, NEW c \in Call, Draft(c)
    PROVE  Moved(c, "stream", Len(rows) + 1, calls[c].max)
<1> PICK n \in Nat : n = Len(rows) + 1
  BY DEF Typed
<1> DEFINE w == [calls[c] EXCEPT !.at = "stream", !.row = n]
<1>1. w \in CallRec
  BY DEF Typed, CallRec
<1>2. calls' = [calls EXCEPT ![c] = w]
  BY DEF Draft
<1>3. /\ w.at = "stream" /\ w.op = calls[c].op /\ w.n = calls[c].n
      /\ w.row = n /\ w.old = calls[c].old /\ w.max = calls[c].max
  BY DEF Typed, CallRec
<1> HIDE DEF w
<1> QED
  BY <1>1, <1>2, <1>3 DEF Typed, Moved

LEMMA EditMaxEffect ==
    ASSUME Typed, NEW c \in Call, NEW i \in 0 .. Len(rows), EditMax(c, i)
    PROVE  Moved(c, "tx", calls[c].row, i) /\ clock' \in Nat
<1>1. i \in Nat /\ clock \in Nat
  BY DEF Typed
<1> DEFINE w == [calls[c] EXCEPT !.at = "tx", !.max = i, !.stamp = clock]
<1>2. w \in CallRec
  BY <1>1 DEF Typed, CallRec
<1>3. calls' = [calls EXCEPT ![c] = w] /\ clock' = clock + 1
  BY DEF EditMax
<1>4. /\ w.at = "tx" /\ w.op = calls[c].op /\ w.n = calls[c].n
      /\ w.row = calls[c].row /\ w.old = calls[c].old /\ w.max = i
  BY DEF Typed, CallRec
<1> HIDE DEF w
<1> QED
  BY <1>1, <1>2, <1>3, <1>4 DEF Typed, Moved

LEMMA DoneEffect ==
    ASSUME Typed, NEW c \in Call, Done(c)
    PROVE  /\ calls' \in [Call -> CallRec]
           /\ \A d \in Call \ {c} : calls'[d] = calls[d]
           /\ calls'[c] = Idle
<1>1. Idle \in CallRec
  BY DEF Idle, CallRec
<1> QED
  BY <1>1 DEF Typed, Done

LEMMA CreateEffect ==
    ASSUME Typed, NEW role \in {"user", "assistant"}, NEW content \in Seq(Nat),
           Create(role, content)
    PROVE  /\ rows' \in Seq(RowRec) /\ past' \in Seq(SUBSET Nat)
           /\ Len(past') = Len(rows') /\ clock' \in Nat
           /\ Len(rows') = Len(rows) + 1
           /\ \A i \in 1 .. Len(rows) : rows'[i] = rows[i] /\ past'[i] = past[i]
           /\ rows'[Len(rows) + 1] = [role |-> role, content |-> content,
                                      gone |-> FALSE, at |-> clock]
           /\ past'[Len(rows) + 1] = Texts(content)
<1> DEFINE row == [role |-> role, content |-> content, gone |-> FALSE, at |-> clock]
<1>1. row \in RowRec
  BY DEF RowRec, Typed
<1>2. Texts(content) \in SUBSET Nat
  BY DEF Texts
<1>3. rows' = Append(rows, row) /\ past' = Append(past, Texts(content))
      /\ clock' = clock + 1
  BY DEF Create
<1> HIDE DEF row
<1>4. /\ rows' \in Seq(RowRec) /\ Len(rows') = Len(rows) + 1
      /\ \A i \in 1 .. Len(rows) : rows'[i] = rows[i]
      /\ rows'[Len(rows) + 1] = row
  BY <1>1, <1>3, AppendProperties DEF Typed
<1>5. /\ past' \in Seq(SUBSET Nat) /\ Len(past') = Len(past) + 1
      /\ \A i \in 1 .. Len(past) : past'[i] = past[i]
      /\ past'[Len(past) + 1] = Texts(content)
  BY <1>2, <1>3, AppendProperties DEF Typed
<1> QED
  BY <1>3, <1>4, <1>5 DEF Typed, row

\* A row that is not deleted gets the new content.
LEMMA WriteEffect ==
    ASSUME Typed, NEW i \in DOMAIN rows, NEW content \in Seq(Nat),
           rows' = [rows EXCEPT ![i].content = content]
    PROVE  /\ rows' \in Seq(RowRec) /\ Len(rows') = Len(rows)
           /\ \A j \in DOMAIN rows :
                 /\ j # i => rows'[j] = rows[j]
                 /\ rows'[j].role = rows[j].role /\ rows'[j].gone = rows[j].gone
           /\ rows'[i].content = content
<1> DEFINE row == [rows[i] EXCEPT !.content = content]
<1>1. rows[i] \in RowRec /\ i \in 1 .. Len(rows)
  BY DEF Typed
<1>2. /\ row \in RowRec /\ row.content = content
      /\ row.role = rows[i].role /\ row.gone = rows[i].gone
  BY <1>1 DEF RowRec
<1>3. rows' = [rows EXCEPT ![i] = row]
  OBVIOUS
<1> HIDE DEF row
<1> PICK new \in RowRec : new = row
  BY <1>2
<1>4. /\ rows' \in Seq(RowRec) /\ Len(rows') = Len(rows)
      /\ \A j \in 1 .. Len(rows) : rows'[j] = IF j = i THEN new ELSE rows[j]
  <2>1. rows \in Seq(RowRec)
    BY DEF Typed
  <2>2. rows' = [rows EXCEPT ![i] = new]
    BY <1>3
  <2>3. i \in 1 .. Len(rows)
    BY <1>1
  <2> QED
    BY ONLY <2>1, <2>2, <2>3, ExceptSeq, new \in RowRec
<1>5. DOMAIN rows = 1 .. Len(rows)
  BY DEF Typed
<1> QED
  BY <1>1, <1>2, <1>4, <1>5

LEMMA UpdateEffect ==
    ASSUME Typed, NEW i \in DOMAIN rows, NEW content \in Seq(Nat),
           UpdateContent(i, content)
    PROVE  /\ rows' \in Seq(RowRec) /\ Len(rows') = Len(rows)
           /\ past' \in Seq(SUBSET Nat) /\ Len(past') = Len(rows')
           /\ \A j \in DOMAIN rows :
                 /\ j # i \/ rows[j].gone => rows'[j] = rows[j] /\ past'[j] = past[j]
                 /\ rows'[j].role = rows[j].role /\ rows'[j].gone = rows[j].gone
           /\ ~rows[i].gone => /\ rows'[i].content = content
                               /\ past'[i] = past[i] \cup Texts(content)
<1>1. CASE rows[i].gone
  BY <1>1 DEF UpdateContent, Typed
<1>2. CASE ~rows[i].gone
  <2>1. rows' = [rows EXCEPT ![i].content = content]
    BY <1>2 DEF UpdateContent
  <2>2. /\ rows' \in Seq(RowRec) /\ Len(rows') = Len(rows)
        /\ \A j \in DOMAIN rows :
              /\ j # i => rows'[j] = rows[j]
              /\ rows'[j].role = rows[j].role /\ rows'[j].gone = rows[j].gone
        /\ rows'[i].content = content
    BY <2>1, WriteEffect
  <2>3. DOMAIN rows = 1 .. Len(past) /\ i \in 1 .. Len(past) /\ past[i] \in SUBSET Nat
    BY DEF Typed
  <2> Texts(content) \in SUBSET Nat
    BY DEF Texts
  <2>4. PICK texts \in SUBSET Nat : texts = past[i] \cup Texts(content)
    BY <2>3
  <2>5. past' = [past EXCEPT ![i] = texts]
    BY <1>2, <2>4 DEF UpdateContent
  <2>6. /\ past' \in Seq(SUBSET Nat) /\ Len(past') = Len(past)
        /\ \A j \in 1 .. Len(past) : past'[j] = IF j = i THEN texts ELSE past[j]
    BY <2>3, <2>5, ExceptSeq DEF Typed
  <2>7. Len(past') = Len(rows')
    BY <2>2, <2>6 DEF Typed
  <2> QED
    BY <1>2, <2>2, <2>3, <2>4, <2>6, <2>7
<1> QED
  BY <1>1, <1>2
\* One more record, at the end.
LEMMA AppendEdit ==
    ASSUME Typed, NEW e \in EditRec, edits' = Append(edits, e)
    PROVE  /\ edits' \in Seq(EditRec) /\ Len(edits') = Len(edits) + 1
           /\ \A k \in 1 .. Len(edits) : edits'[k] = edits[k]
           /\ edits'[Len(edits) + 1] = e
<1>1. edits \in Seq(EditRec)
  BY DEF Typed
<1> QED
  BY ONLY <1>1, e \in EditRec, edits' = Append(edits, e), AppendProperties

LEMMA TextSeq ==
    ASSUME NEW n \in Nat
    PROVE  <<n>> \in Seq(Nat) /\ Texts(<<n>>) = {n}
BY DEF Texts

LEMMA EmptySeqTexts == <<>> \in Seq(Nat) /\ Texts(<<>>) = {}
BY DEF Texts

LEMMA EditTxEffect ==
    ASSUME Typed, Pointed, NEW c \in Call, EditTx(c)
    PROVE  /\ rows' \in Seq(RowRec) /\ Len(rows') = Len(rows)
           /\ past' \in Seq(SUBSET Nat) /\ Len(past') = Len(rows')
           /\ \A j \in DOMAIN rows :
                 /\ rows[j].gone => rows'[j] = rows[j]
                 /\ rows'[j].role = rows[j].role
                 /\ rows'[j].gone = (rows[j].gone
                                     \/ (calls[c].row < j /\ j <= calls[c].max))
                 /\ rows'[j].content = IF j = calls[c].row /\ ~rows[j].gone
                                       THEN <<calls[c].n>> ELSE rows[j].content
                 /\ past'[j] = IF j = calls[c].row /\ ~rows[j].gone
                               THEN past[j] \cup {calls[c].n} ELSE past[j]
           /\ \E e \in EditRec :
                 /\ edits' = Append(edits, e)
                 /\ e.msg = calls[c].row /\ e.old = calls[c].old
                 /\ e.new = <<calls[c].n>>
                 /\ e.from = calls[c].row /\ e.to = calls[c].max
           /\ Go(c, "upto") /\ UNCHANGED <<clock, ops, shared, spoilt>>
<1> DEFINE r == calls[c].row
           mx == calls[c].max
           text == <<calls[c].n>>
           new(i) == [rows[i] EXCEPT !.content = IF i = r /\ ~rows[i].gone
                                                 THEN text ELSE rows[i].content,
                                     !.gone = rows[i].gone \/ i \in Cut(r, mx)]
<1>1. /\ r \in DOMAIN rows /\ mx \in Nat /\ calls[c].old \in Seq(Nat)
      /\ calls[c].n \in Nat /\ calls[c].stamp \in Nat
  BY DEF EditTx, Typed, Pointed, CallPointed, EditsUser, CallRec
<1>2. DOMAIN rows = 1 .. Len(rows) /\ DOMAIN past = 1 .. Len(rows)
  BY DEF Typed
<1>3. text \in Seq(Nat) /\ r \in Nat
  BY <1>1, <1>2, TextSeq
<1>4. rows' = [i \in DOMAIN rows |-> new(i)]
  BY DEF EditTx
<1>5. ASSUME NEW j \in DOMAIN rows
      PROVE  /\ new(j) \in RowRec
             /\ rows[j].gone => new(j) = rows[j]
             /\ new(j).role = rows[j].role
             /\ new(j).gone = (rows[j].gone \/ (r < j /\ j <= mx))
             /\ new(j).content = IF j = r /\ ~rows[j].gone THEN text ELSE rows[j].content
  <2>1. rows[j] \in RowRec /\ j \in Nat
    BY <1>2 DEF Typed
  <2>2. PICK b \in BOOLEAN : b = (rows[j].gone \/ j \in Cut(r, mx))
    BY <2>1 DEF RowRec
  <2>3. b = (rows[j].gone \/ (r < j /\ j <= mx))
    <3>1. j \in Cut(r, mx) <=> ~rows[j].gone /\ r < j /\ j <= mx
      BY <2>1, <1>1, <1>3 DEF Cut, Visible
    <3>2. rows[j].gone \in BOOLEAN
      BY <2>1 DEF RowRec
    <3> QED
      BY <2>2, <3>1, <3>2
  <2>4. PICK t \in Seq(Nat) : t = IF j = r /\ ~rows[j].gone THEN text ELSE rows[j].content
    BY <2>1, <1>3 DEF RowRec
  <2>5. new(j) = [rows[j] EXCEPT !.content = t, !.gone = b]
    BY <2>2, <2>4
  <2>6. rows[j].gone => t = rows[j].content /\ b = rows[j].gone
    BY <2>1, <2>2, <2>4 DEF RowRec
  <2> HIDE DEF new
  <2>7. /\ new(j) \in RowRec
        /\ rows[j].gone => new(j) = rows[j]
        /\ new(j).role = rows[j].role /\ new(j).gone = b /\ new(j).content = t
    BY <2>1, <2>5, <2>6 DEF RowRec
  <2> QED
    BY <2>3, <2>4, <2>7
<1> HIDE DEF new
<1>6. rows' \in Seq(RowRec) /\ Len(rows') = Len(rows)
      /\ \A j \in DOMAIN rows : rows'[j] = new(j)
  BY <1>2, <1>4, <1>5 DEF Typed
<1>7. /\ past' \in Seq(SUBSET Nat) /\ Len(past') = Len(rows)
      /\ \A j \in DOMAIN rows : past'[j] = IF j = r /\ ~rows[j].gone
                                           THEN past[j] \cup {calls[c].n} ELSE past[j]
  <2>1. CASE rows[r].gone
    BY <2>1, <1>2 DEF EditTx, Typed
  <2>2. CASE ~rows[r].gone
    <3>1. r \in 1 .. Len(past) /\ past \in Seq(SUBSET Nat) /\ Len(past) = Len(rows)
      BY <1>1, <1>2 DEF Typed
    <3>2. past[r] \cup {calls[c].n} \in SUBSET Nat
      BY <3>1, <1>1
    <3>3. PICK texts \in SUBSET Nat : texts = past[r] \cup {calls[c].n}
      BY <3>2
    <3>4. past' = [past EXCEPT ![r] = texts]
      BY <2>2, <3>3 DEF EditTx
    <3>5. /\ past' \in Seq(SUBSET Nat) /\ Len(past') = Len(past)
          /\ \A j \in 1 .. Len(past) : past'[j] = IF j = r THEN texts ELSE past[j]
      BY ONLY <3>1, <3>4, ExceptSeq, texts \in SUBSET Nat
    <3> QED
      BY <2>2, <3>1, <3>3, <3>5, <1>2
  <2> QED
    BY <2>1, <2>2
<1>8. \E e \in EditRec : /\ edits' = Append(edits, e)
                         /\ e.msg = r /\ e.old = calls[c].old /\ e.new = text
                         /\ e.from = r /\ e.to = mx
  <2> DEFINE e == [kind |-> "user_edit", msg |-> r, old |-> calls[c].old, new |-> text,
                   from |-> r, to |-> mx, at |-> calls[c].stamp]
  <2>1. e \in EditRec
    BY <1>1, <1>3 DEF EditRec
  <2>2. edits' = Append(edits, e)
    BY DEF EditTx
  <2> QED
    BY <2>1, <2>2
<1>9. Go(c, "upto") /\ UNCHANGED <<clock, ops, shared, spoilt>>
  BY DEF EditTx
<1>10. ASSUME NEW j \in DOMAIN rows
       PROVE  /\ rows[j].gone => rows'[j] = rows[j]
              /\ rows'[j].role = rows[j].role
              /\ rows'[j].gone = (rows[j].gone \/ (r < j /\ j <= mx))
              /\ rows'[j].content = IF j = r /\ ~rows[j].gone THEN text
                                    ELSE rows[j].content
  BY <1>5, <1>6
<1>11. Len(rows') = Len(rows) /\ rows' \in Seq(RowRec) /\ Len(past') = Len(rows')
  BY <1>6, <1>7
<1> QED
  BY <1>7, <1>8, <1>9, <1>10, <1>11

LEMMA RecordEffect ==
    ASSUME Typed, Pointed, NEW c \in Call, Record(c)
    PROVE  /\ \E e \in EditRec :
                 /\ edits' = Append(edits, e)
                 /\ e.msg = calls[c].row /\ e.old = calls[c].old
                 /\ e.new = <<calls[c].n>>
                 /\ e.from = 0 /\ e.to = 0
           /\ clock' \in Nat
<1> DEFINE e == [kind |-> "assistant_regen", msg |-> calls[c].row,
                 old |-> calls[c].old, new |-> <<calls[c].n>>,
                 from |-> 0, to |-> 0, at |-> clock]
<1>1. /\ calls[c].row \in Nat /\ calls[c].old \in Seq(Nat) /\ calls[c].n \in Nat
      /\ clock \in Nat
  BY DEF Typed, CallRec
<1>2. <<calls[c].n>> \in Seq(Nat)
  BY <1>1, TextSeq
<1>3. e \in EditRec
  BY <1>1, <1>2 DEF EditRec
<1>4. edits' = Append(edits, e) /\ clock' = clock + 1
  BY DEF Record
<1> QED
  BY <1>1, <1>3, <1>4

-----------------------------------------------------------------------------
(* Base holds in every state.  A call that an action leaves alone stays right
   as long as rows only grow and keep their roles. *)

RowsKept == /\ Len(rows) <= Len(rows')
            /\ \A i \in DOMAIN rows : i \in DOMAIN rows' /\ rows'[i].role = rows[i].role

LEMMA OthersPointed ==
    ASSUME Base, Typed', RowsKept, NEW d \in Call, calls'[d] = calls[d]
    PROVE  CallPointed(d)'
<1>1. CallPointed(d) /\ calls[d] \in CallRec
  BY DEF Base, Typed, Pointed
<1>2. Len(rows) \in Nat /\ Len(rows') \in Nat
  BY DEF Base, Typed
<1> QED
  BY <1>1, <1>2 DEF CallPointed, RowsKept, HoldsAnswer, EditsUser, CallRec

LEMMA EditNumbers ==
    ASSUME Typed, NEW k \in DOMAIN edits
    PROVE  edits[k].from \in Nat /\ edits[k].to \in Nat
<1>1. edits[k] \in EditRec
  BY DEF Typed
<1> QED
  BY <1>1 DEF EditRec

LEMMA SameRows ==
    ASSUME Typed, rows' = rows
    PROVE  RowsKept
BY DEF Typed, RowsKept

\* A step of c that changes no record.
LEMMA CallStep ==
    ASSUME Base, Typed', RowsKept, edits' = edits, NEW c \in Call,
           \A d \in Call \ {c} : calls'[d] = calls[d],
           CallPointed(c)'
    PROVE  Base'
<1>1. ASSUME NEW d \in Call PROVE CallPointed(d)'
  <2>1. CASE d = c
    BY <2>1
  <2>2. CASE d # c
    BY <2>2, OthersPointed
  <2> QED
    BY <2>1, <2>2
<1>2. \A k \in DOMAIN edits : edits[k].to \in Nat /\ edits[k].to <= Len(rows)
  BY EditNumbers DEF Base, Pointed
<1>3. \A k \in DOMAIN edits' : edits'[k].to <= Len(rows')
  BY <1>2 DEF Base, Typed, RowsKept
<1> QED
  BY <1>1, <1>3 DEF Base, Pointed

LEMMA IdlePointed ==
    ASSUME Typed', NEW c \in Call, calls'[c] = Idle
    PROVE  CallPointed(c)'
BY DEF Typed, CallPointed, Idle, HoldsAnswer, EditsUser

\* A step of c that changes no row and no record, and ends c.
LEMMA DoneStep ==
    ASSUME Base, NEW c \in Call, Done(c), clock' \in Nat, ops' = ops,
           UNCHANGED <<rows, edits, past>>
    PROVE  Base'
<1>1. Typed'
  BY DoneEffect DEF Base, Typed
<1>2. calls'[c] = Idle /\ \A d \in Call \ {c} : calls'[d] = calls[d]
  BY DoneEffect DEF Base
<1> QED
  BY <1>1, <1>2, SameRows, IdlePointed, CallStep DEF Base

\* A step of c that changes no row and no record, and goes on.
LEMMA MovedStep ==
    ASSUME Base, NEW c \in Call, NEW at \in At, NEW row, NEW max, Moved(c, at, row, max),
           clock' \in Nat, ops' = ops, UNCHANGED <<rows, edits, past>>,
           CallPointed(c)'
    PROVE  Base'
<1>1. Typed'
  BY DEF Base, Typed, Moved
<1>2. \A d \in Call \ {c} : calls'[d] = calls[d]
  BY DEF Moved
<1> QED
  BY <1>1, <1>2, SameRows, CallStep DEF Base
LEMMA BegunStep ==
    ASSUME Base, NEW c \in Call, NEW v \in CallRec, Begin(c, v),
           UNCHANGED <<rows, edits, clock, past>>,
           v.max = 0,
           \/ v.at = "user" /\ v.op = "send" /\ v.row = 0
           \/ /\ v.at = "last" /\ v.op \in {"regenerate", "continue"}
              /\ v.row \in Visible /\ rows[v.row].role = "assistant"
           \/ /\ v.at = "max" /\ v.op = "edit"
              /\ v.row \in Visible /\ rows[v.row].role = "user"
    PROVE  Base'
<1>1. Typed'
  BY BeginEffect DEF Base, Typed
<1>2. /\ calls'[c].at = v.at /\ calls'[c].op = v.op /\ calls'[c].row = v.row
      /\ calls'[c].max = v.max /\ \A d \in Call \ {c} : calls'[d] = calls[d]
  BY BeginEffect DEF Base
<1>3. Visible \subseteq DOMAIN rows /\ DOMAIN rows = 1 .. Len(rows) /\ Len(rows) \in Nat
  BY DEF Visible, Base, Typed
<1>4. CallPointed(c)'
  BY <1>2, <1>3 DEF CallPointed, HoldsAnswer, EditsUser
<1> QED
  BY <1>1, <1>2, <1>4, SameRows, CallStep DEF Base

LEMMA SpokenRows ==
    ASSUME Base
    PROVE  Spoken \in SUBSET Nat
BY DEF Spoken, Visible, Base, Typed

LEMMA SendReadBegins ==
    ASSUME Base, NEW c \in Call, SendRead(c)
    PROVE  \E v \in CallRec :
              /\ Begin(c, v)
              /\ v.max = 0 /\ v.at = "user" /\ v.op = "send" /\ v.row = 0
<1>1. PICK p \in SUBSET Nat : p = Spoken
  BY SpokenRows
<1> DEFINE v == [Idle EXCEPT !.op = "send", !.at = "user", !.prompt = p]
<1>2. v \in CallRec /\ v.max = 0 /\ v.at = "user" /\ v.op = "send" /\ v.row = 0
  <2>1. Idle \in CallRec /\ Idle.max = 0 /\ Idle.row = 0
    BY DEF Idle, CallRec
  <2> QED
    BY <2>1 DEF CallRec
<1>3. Begin(c, v)
  BY <1>1 DEF SendRead
<1> HIDE DEF v
<1> QED
  BY <1>2, <1>3

LEMMA SendReadBase ==
    ASSUME Base, NEW c \in Call, SendRead(c)
    PROVE  Base'
BY SendReadBegins, BegunStep DEF SendRead

LEMMA AnswerReadBegins ==
    ASSUME Base, NEW c \in Call, NEW op \in {"regenerate", "continue"},
           NEW i \in DOMAIN rows, AnswerRead(c, op, i)
    PROVE  \E v \in CallRec :
              /\ Begin(c, v) /\ UNCHANGED <<rows, edits, clock, past>>
              /\ v.max = 0 /\ v.at = "last" /\ v.op = op /\ v.row = i
              /\ v.old = rows[i].content
              /\ i \in Visible /\ rows[i].role = "assistant"
<1> DEFINE v == [Idle EXCEPT !.op = op, !.at = "last", !.row = i,
                             !.old = rows[i].content]
<1> i \in Nat /\ rows[i] \in RowRec
  BY DEF Base, Typed
<1>1. i \in Nat /\ rows[i].content \in Seq(Nat)
  BY DEF RowRec
<1>2. PICK text \in Seq(Nat) : text = rows[i].content
  BY <1>1
<1>3. v = [Idle EXCEPT !.op = op, !.at = "last", !.row = i, !.old = text]
  BY <1>2
<1>4. Begin(c, v) /\ UNCHANGED <<rows, edits, clock, past>>
  BY DEF AnswerRead
<1> HIDE DEF v
<1>5. v \in CallRec /\ v.max = 0 /\ v.at = "last" /\ v.op = op /\ v.row = i /\ v.old = text
  BY <1>1, <1>3 DEF Idle, CallRec
<1> QED
  BY <1>2, <1>4, <1>5 DEF AnswerRead

LEMMA EditReadBegins ==
    ASSUME Base, NEW c \in Call, NEW i \in DOMAIN rows, EditRead(c, i)
    PROVE  \E v \in CallRec :
              /\ Begin(c, v) /\ UNCHANGED <<rows, edits, clock, past>>
              /\ v.max = 0 /\ v.at = "max" /\ v.op = "edit" /\ v.row = i
              /\ v.old = rows[i].content
              /\ i \in Visible /\ rows[i].role = "user"
<1> DEFINE v == [Idle EXCEPT !.op = "edit", !.at = "max", !.row = i,
                             !.old = rows[i].content]
<1> i \in Nat /\ rows[i] \in RowRec
  BY DEF Base, Typed
<1>1. i \in Nat /\ rows[i].content \in Seq(Nat)
  BY DEF RowRec
<1>2. PICK text \in Seq(Nat) : text = rows[i].content
  BY <1>1
<1>3. v = [Idle EXCEPT !.op = "edit", !.at = "max", !.row = i, !.old = text]
  BY <1>2
<1>4. Begin(c, v) /\ UNCHANGED <<rows, edits, clock, past>>
  BY DEF EditRead
<1> HIDE DEF v
<1>5. v \in CallRec /\ v.max = 0 /\ v.at = "max" /\ v.op = "edit" /\ v.row = i /\ v.old = text
  BY <1>1, <1>3 DEF Idle, CallRec
<1> QED
  BY <1>2, <1>4, <1>5 DEF EditRead

LEMMA CheckLastBase ==
    ASSUME Base, NEW c \in Call, CheckLast(c)
    PROVE  Base'
<1>1. CASE IsMaxMessageID(calls[c].row)
  <2>1. Moved(c, "before", calls[c].row, calls[c].max)
    BY <1>1, GoEffect DEF CheckLast, Base, At
  <2>2. CallPointed(c)'
    BY <2>1 DEF CheckLast, Base, Pointed, CallPointed, Moved, HoldsAnswer, EditsUser
  <2> QED
    BY <2>1, <2>2, MovedStep DEF CheckLast, history, Base, Typed, At
<1>2. CASE ~IsMaxMessageID(calls[c].row)
  BY <1>2, DoneStep DEF CheckLast, history, Base, Typed
<1> QED
  BY <1>1, <1>2

\* To where ListBefore leads.
LEMMA ListBeforeMoves ==
    ASSUME Base, NEW c \in Call, ListBefore(c)
    PROVE  \/ /\ calls[c].op = "continue"
              /\ Moved(c, "stream", calls[c].row, calls[c].max)
           \/ /\ calls[c].op = "regenerate"
              /\ Moved(c, "reset", calls[c].row, calls[c].max)
<1> calls[c] \in CallRec /\ CallPointed(c) /\ calls[c].at = "before"
  BY DEF ListBefore, Base, Typed, Pointed
<1>1. calls[c].row \in Nat /\ calls[c].op \in {"regenerate", "continue"}
  BY DEF CallRec, CallPointed
<1>2. PICK prefix \in SUBSET Nat : prefix = {i \in Spoken : i < calls[c].row}
  BY SpokenRows
<1>3. prefix \cup {calls[c].row} \in SUBSET Nat
  BY <1>1
<1>4. CASE calls[c].op = "continue"
  <2>1. PICK p \in SUBSET Nat : p = prefix \cup {calls[c].row}
    BY <1>3
  <2>2. calls' = [calls EXCEPT ![c].at = "stream", ![c].prompt = p]
    BY <1>2, <1>4, <2>1 DEF ListBefore
  <2> QED
    BY <1>4, <2>2, AskEffect DEF Base, At
<1>5. CASE calls[c].op = "regenerate"
  <2>1. calls' = [calls EXCEPT ![c].at = "reset", ![c].prompt = prefix]
    BY <1>2, <1>5 DEF ListBefore
  <2> QED
    BY <1>5, <2>1, AskEffect DEF Base, At
<1> QED
  BY <1>1, <1>4, <1>5

LEMMA ListBeforeBase ==
    ASSUME Base, NEW c \in Call, ListBefore(c)
    PROVE  Base'
<1>1. /\ clock' \in Nat /\ ops' = ops /\ UNCHANGED <<rows, edits, past>>
      /\ CallPointed(c) /\ calls[c].at = "before"
  BY DEF ListBefore, history, Base, Typed, Pointed
<1>2. CASE calls[c].op = "continue" /\ Moved(c, "stream", calls[c].row, calls[c].max)
  <2>1. CallPointed(c)'
    BY <1>1, <1>2 DEF CallPointed, Moved, HoldsAnswer, EditsUser
  <2> QED
    BY <1>1, <1>2, <2>1, MovedStep DEF At
<1>3. CASE calls[c].op = "regenerate" /\ Moved(c, "reset", calls[c].row, calls[c].max)
  <2>1. CallPointed(c)'
    BY <1>1, <1>3 DEF CallPointed, Moved, HoldsAnswer, EditsUser
  <2> QED
    BY <1>1, <1>3, <2>1, MovedStep DEF At
<1> QED
  BY <1>2, <1>3, ListBeforeMoves

LEMMA EditMaxBase ==
    ASSUME Base, NEW c \in Call, NEW i \in 0 .. Len(rows), EditMax(c, i)
    PROVE  Base'
<1>1. Moved(c, "tx", calls[c].row, i) /\ clock' \in Nat
  BY EditMaxEffect DEF Base
<1>2. /\ ops' = ops /\ UNCHANGED <<rows, edits, past>>
      /\ CallPointed(c) /\ calls[c].at = "max"
  BY DEF EditMax, history, Base, Pointed
<1>3. CallPointed(c)'
  BY <1>1, <1>2 DEF CallPointed, Moved, HoldsAnswer, EditsUser, Base, Typed
<1> QED
  BY <1>1, <1>2, <1>3, MovedStep DEF At

LEMMA EditListMoves ==
    ASSUME Base, NEW c \in Call, EditList(c)
    PROVE  Moved(c, "draft", calls[c].row, calls[c].max)
<1>1. PICK p \in SUBSET Nat : p = {i \in Spoken : i <= calls[c].row}
  BY SpokenRows
<1>2. calls' = [calls EXCEPT ![c].at = "draft", ![c].prompt = p]
  BY <1>1 DEF EditList
<1> QED
  BY <1>2, AskEffect DEF Base, At

LEMMA EditListBase ==
    ASSUME Base, NEW c \in Call, EditList(c)
    PROVE  Base'
<1>1. /\ clock' \in Nat /\ ops' = ops /\ UNCHANGED <<rows, edits, past>>
      /\ CallPointed(c) /\ calls[c].at = "upto"
  BY DEF EditList, history, Base, Typed, Pointed
<1>2. CallPointed(c)'
  BY <1>1, EditListMoves DEF CallPointed, Moved, HoldsAnswer, EditsUser
<1> QED
  BY <1>1, <1>2, EditListMoves, MovedStep DEF At
LEMMA SendUserMoves ==
    ASSUME Base, NEW c \in Call, SendUser(c)
    PROVE  Moved(c, "draft", calls[c].row, calls[c].max)
<1>1. calls[c].prompt \in SUBSET Nat /\ Len(rows) + 1 \in Nat
  BY DEF Base, Typed, CallRec
<1>2. PICK p \in SUBSET Nat : p = calls[c].prompt \cup {Len(rows) + 1}
  BY <1>1
<1>3. calls' = [calls EXCEPT ![c].at = "draft", ![c].prompt = p]
  BY <1>2 DEF SendUser
<1> QED
  BY <1>3, AskEffect DEF Base, At

\* A new row, and what it means for the state's type.
LEMMA CreateGrows ==
    ASSUME Typed, NEW role \in {"user", "assistant"}, NEW content \in Seq(Nat),
           Create(role, content)
    PROVE  /\ rows' \in Seq(RowRec) /\ past' \in Seq(SUBSET Nat)
           /\ Len(past') = Len(rows') /\ clock' \in Nat
           /\ Len(rows') = Len(rows) + 1 /\ RowsKept
           /\ rows'[Len(rows) + 1] = [role |-> role, content |-> content,
                                      gone |-> FALSE, at |-> clock]
<1>1. /\ rows' \in Seq(RowRec) /\ Len(rows') = Len(rows) + 1
      /\ \A i \in 1 .. Len(rows) : rows'[i] = rows[i]
  BY CreateEffect
<1>2. RowsKept
  BY <1>1 DEF Typed, RowsKept
<1> QED
  BY <1>1, <1>2, CreateEffect

LEMMA SendUserBase ==
    ASSUME Base, NEW c \in Call, SendUser(c)
    PROVE  Base'
<1>1. PICK content \in Seq(Nat) : content = <<calls[c].n>>
  BY TextSeq DEF Base, Typed, CallRec
<1>2. Create("user", content) /\ edits' = edits /\ ops' = ops /\ calls[c].at = "user"
  BY <1>1 DEF SendUser
<1>3. /\ Typed' /\ RowsKept /\ Len(rows') = Len(rows) + 1
      /\ Moved(c, "draft", calls[c].row, calls[c].max)
  BY <1>2, CreateGrows, SendUserMoves DEF Base, Typed, Moved
<1>4. CallPointed(c) /\ calls[c] \in CallRec /\ Len(rows) \in Nat
  BY DEF Base, Pointed, Typed
<1>5. calls[c].max \in Nat /\ calls[c].row \in Nat
  BY <1>4 DEF CallRec
<1>6. CallPointed(c)'
  BY <1>2, <1>3, <1>4, <1>5 DEF CallPointed, Moved, HoldsAnswer, EditsUser
<1> QED
  BY <1>2, <1>3, <1>6, CallStep DEF Moved

LEMMA DraftBase ==
    ASSUME Base, NEW c \in Call, Draft(c)
    PROVE  Base'
<1>1. /\ Typed' /\ RowsKept /\ Len(rows') = Len(rows) + 1 /\ edits' = edits
      /\ Moved(c, "stream", Len(rows) + 1, calls[c].max)
      /\ rows'[Len(rows) + 1] = [role |-> "assistant", content |-> <<>>,
                                 gone |-> FALSE, at |-> clock]
  <2>1. Create("assistant", <<>>) /\ edits' = edits /\ ops' = ops
    BY DEF Draft
  <2>2. Moved(c, "stream", Len(rows) + 1, calls[c].max)
    BY DraftEffect DEF Base
  <2> QED
    BY <2>1, <2>2, EmptySeqTexts, CreateGrows DEF Base, Typed, Moved
<1>2. /\ CallPointed(c) /\ calls[c] \in CallRec /\ Len(rows) \in Nat
      /\ calls[c].at = "draft"
  BY DEF Draft, Base, Pointed, Typed
<1>3. Len(rows) + 1 \in DOMAIN rows' /\ calls[c].max \in Nat
  BY <1>1, <1>2 DEF Typed, CallRec
<1>4. CallPointed(c)'
  BY <1>1, <1>2, <1>3 DEF CallPointed, Moved, HoldsAnswer, EditsUser
<1> QED
  BY <1>1, <1>4, CallStep DEF Moved

LEMMA ResetBase ==
    ASSUME Base, NEW c \in Call, ResetAssistantForRegenerate(c)
    PROVE  Base'
<1>1. CallPointed(c) /\ calls[c].at = "reset" /\ calls[c].row \in DOMAIN rows
  BY DEF ResetAssistantForRegenerate, Base, Pointed, CallPointed, HoldsAnswer
<1>2. CASE rows[calls[c].row].gone
  BY <1>2, DoneStep DEF ResetAssistantForRegenerate, history, Base, Typed
<1>3. CASE ~rows[calls[c].row].gone
  <2>1. Moved(c, "stream", calls[c].row, calls[c].max)
    BY <1>3, GoEffect DEF ResetAssistantForRegenerate, Base, At
  <2>2. rows' = [rows EXCEPT ![calls[c].row].content = <<>>]
    BY <1>3 DEF ResetAssistantForRegenerate
  <2>3. /\ rows' \in Seq(RowRec) /\ Len(rows') = Len(rows)
        /\ \A j \in DOMAIN rows : rows'[j].role = rows[j].role
    BY <1>1, <2>2, EmptySeqTexts, WriteEffect DEF Base
  <2>4. Typed' /\ RowsKept /\ edits' = edits
    BY <2>1, <2>3 DEF ResetAssistantForRegenerate, history, Base, Typed, RowsKept, Moved
  <2>5. CallPointed(c)'
    BY <1>1, <2>1, <2>4, <2>3 DEF CallPointed, Moved, HoldsAnswer, EditsUser, RowsKept
  <2> QED
    BY <2>1, <2>4, <2>5, CallStep DEF Moved
<1> QED
  BY <1>2, <1>3

LEMMA EditTxBase ==
    ASSUME Base, NEW c \in Call, EditTx(c)
    PROVE  Base'
<1>1. PICK e \in EditRec : edits' = Append(edits, e) /\ e.to = calls[c].max
  BY EditTxEffect DEF Base
<1>2. /\ rows' \in Seq(RowRec) /\ Len(rows') = Len(rows)
      /\ past' \in Seq(SUBSET Nat) /\ Len(past') = Len(rows')
      /\ \A j \in DOMAIN rows : rows'[j].role = rows[j].role
      /\ Go(c, "upto") /\ clock' = clock /\ ops' = ops
  BY EditTxEffect DEF Base
<1>3. Moved(c, "upto", calls[c].row, calls[c].max)
  BY <1>2, GoEffect DEF Base, At
<1>4. /\ edits' \in Seq(EditRec) /\ Len(edits') = Len(edits) + 1
      /\ \A k \in 1 .. Len(edits) : edits'[k] = edits[k]
      /\ edits'[Len(edits) + 1] = e
  BY <1>1, AppendEdit DEF Base
<1>5. Typed' /\ RowsKept
  BY <1>2, <1>3, <1>4 DEF Base, Typed, RowsKept, Moved
<1>6. CallPointed(c) /\ calls[c].at = "tx"
  BY DEF EditTx, Base, Pointed
<1>7. CallPointed(c)'
  BY <1>2, <1>3, <1>5, <1>6 DEF CallPointed, Moved, HoldsAnswer, EditsUser, RowsKept
<1>8. \A d \in Call : CallPointed(d)'
  BY <1>3, <1>5, <1>7, OthersPointed DEF Moved
<1>9. ASSUME NEW k \in DOMAIN edits' PROVE edits'[k].to <= Len(rows')
  <2>1. k \in 1 .. Len(edits) \/ k = Len(edits) + 1
    BY <1>4 DEF Base, Typed
  <2>2. DOMAIN edits = 1 .. Len(edits)
    BY DEF Base, Typed
  <2> QED
    BY <1>1, <1>2, <1>4, <1>6, <2>1, <2>2 DEF Base, Pointed, CallPointed
<1> QED
  BY <1>5, <1>8, <1>9 DEF Base, Pointed

LEMMA RecordBase ==
    ASSUME Base, NEW c \in Call, Record(c)
    PROVE  Base'
<1>1. PICK e \in EditRec : edits' = Append(edits, e) /\ e.to = 0
  BY RecordEffect DEF Base
<1>2. /\ rows' = rows /\ past' = past /\ ops' = ops /\ clock' \in Nat
      /\ calls' \in [Call -> CallRec] /\ calls'[c] = Idle
      /\ \A d \in Call \ {c} : calls'[d] = calls[d]
  BY RecordEffect, DoneEffect DEF Base, Record
<1>3. /\ edits' \in Seq(EditRec) /\ Len(edits') = Len(edits) + 1
      /\ \A k \in 1 .. Len(edits) : edits'[k] = edits[k]
      /\ edits'[Len(edits) + 1] = e
  BY <1>1, AppendEdit DEF Base
<1>4. Typed' /\ RowsKept
  BY <1>2, <1>3 DEF Base, Typed, RowsKept
<1>5. \A d \in Call : CallPointed(d)'
  BY <1>2, <1>4, IdlePointed, OthersPointed
<1>6. ASSUME NEW k \in DOMAIN edits' PROVE edits'[k].to <= Len(rows')
  <2>1. k \in 1 .. Len(edits) \/ k = Len(edits) + 1
    BY <1>3 DEF Base, Typed
  <2>2. DOMAIN edits = 1 .. Len(edits) /\ Len(rows) \in Nat
    BY DEF Base, Typed
  <2> QED
    BY <1>1, <1>2, <1>3, <2>1, <2>2 DEF Base, Pointed
<1> QED
  BY <1>4, <1>5, <1>6 DEF Base, Pointed

\* Ended leads to the record, or the call is over.
LEMMA EndedMoves ==
    ASSUME Typed, NEW c \in Call, NEW text, Ended(c, text)
    PROVE  \/ /\ calls[c].op = "regenerate" /\ UNCHANGED spoilt
              /\ Moved(c, "record", calls[c].row, calls[c].max)
           \/ /\ calls' \in [Call -> CallRec] /\ calls'[c] = Idle
              /\ \A d \in Call \ {c} : calls'[d] = calls[d]
              /\ spoilt' = spoilt \cup {calls[d].row : d \in {d \in {c} : Regenerates(d)}}
<1>1. CASE calls[c].op = "regenerate" /\ Go(c, "record") /\ UNCHANGED spoilt
  BY <1>1, GoEffect DEF At
<1>2. CASE Done(c) /\ Spoil({d \in {c} : Regenerates(d)})
  BY <1>2, DoneEffect DEF Spoil
<1> QED
  BY <1>1, <1>2 DEF Ended

LEMMA EndedBase ==
    ASSUME Base, NEW c \in Call, NEW text, Ended(c, text), calls[c].at = "stream",
           rows' \in Seq(RowRec), Len(rows') = Len(rows),
           past' \in Seq(SUBSET Nat), Len(past') = Len(rows'),
           \A j \in DOMAIN rows : rows'[j].role = rows[j].role
    PROVE  Base'
<1>1. calls' \in [Call -> CallRec] /\ \A d \in Call \ {c} : calls'[d] = calls[d]
  BY EndedMoves DEF Base, Moved
<1>2. Typed' /\ RowsKept /\ edits' = edits
  BY <1>1 DEF Ended, Base, Typed, RowsKept
<1>3. CASE calls'[c] = Idle
  BY <1>1, <1>2, <1>3, IdlePointed, CallStep
<1>4. CASE calls[c].op = "regenerate" /\ Moved(c, "record", calls[c].row, calls[c].max)
  <2>1. CallPointed(c)
    BY DEF Base, Pointed
  <2>2. CallPointed(c)'
    BY <1>2, <1>4, <2>1 DEF CallPointed, Moved, HoldsAnswer, EditsUser, RowsKept
  <2> QED
    BY <1>1, <1>2, <2>2, CallStep
<1> QED
  BY <1>3, <1>4, EndedMoves DEF Base

\* What Finish writes.
Answer(c, text) == IF calls[c].op = "continue" THEN calls[c].old \o text ELSE text

LEMMA AnswerSeq ==
    ASSUME Typed, NEW c \in Call, NEW text \in {<<>>, <<calls[c].n>>}
    PROVE  text \in Seq(Nat) /\ Answer(c, text) \in Seq(Nat)
<1>1. text \in Seq(Nat)
  BY TextSeq, EmptySeqTexts DEF Typed, CallRec
<1>2. calls[c].old \in Seq(Nat)
  BY DEF Typed, CallRec
<1>3. calls[c].old \o text \in Seq(Nat)
  BY <1>1, <1>2, ConcatProperties
<1> QED
  BY <1>1, <1>3 DEF Answer

LEMMA FinishBase ==
    ASSUME Base, NEW c \in Call, NEW text \in {<<>>, <<calls[c].n>>}, Finish(c, text)
    PROVE  Base'
<1>1. calls[c].row \in DOMAIN rows
  BY DEF Finish, Base, Pointed, CallPointed, HoldsAnswer
<1>2. UpdateContent(calls[c].row, Answer(c, text)) /\ Answer(c, text) \in Seq(Nat)
  BY AnswerSeq DEF Finish, Answer, Base
<1>3. PICK new \in Seq(Nat) : new = Answer(c, text)
  BY <1>2
<1>4. UpdateContent(calls[c].row, new)
  BY <1>2, <1>3
<1>5. /\ rows' \in Seq(RowRec) /\ Len(rows') = Len(rows)
      /\ past' \in Seq(SUBSET Nat) /\ Len(past') = Len(rows')
      /\ \A j \in DOMAIN rows : rows'[j].role = rows[j].role
  BY <1>1, <1>4, UpdateEffect DEF Base
<1> QED
  BY <1>5, EndedBase DEF Finish

LEMMA FinishUnsavedBase ==
    ASSUME Base, NEW c \in Call, NEW text, FinishUnsaved(c, text)
    PROVE  Base'
<1>1. /\ rows' \in Seq(RowRec) /\ Len(rows') = Len(rows)
      /\ past' \in Seq(SUBSET Nat) /\ Len(past') = Len(rows')
      /\ \A j \in DOMAIN rows : rows'[j].role = rows[j].role
  BY DEF FinishUnsaved, Base, Typed
<1> QED
  BY <1>1, EndedBase DEF FinishUnsaved

LEMMA FailBase ==
    ASSUME Base, NEW c \in Call, Fail(c)
    PROVE  Base'
BY DoneStep DEF Fail, Base, Typed

LEMMA CrashBase ==
    ASSUME Base, Crash
    PROVE  Base'
<1>1. /\ UNCHANGED <<rows, edits, clock, ops, past>>
      /\ calls' = [c \in Call |-> Idle]
  BY DEF Crash
<1>2. Idle \in CallRec
  BY DEF Idle, CallRec
<1>3. Typed' /\ \A c \in Call : calls'[c] = Idle
  BY <1>1, <1>2 DEF Base, Typed
<1>4. \A c \in Call : CallPointed(c)'
  BY <1>3, IdlePointed
<1> QED
  BY <1>1, <1>3, <1>4 DEF Base, Pointed
LEMMA BaseInit == Init => Base
<1> SUFFICES ASSUME Init PROVE Base
  OBVIOUS
<1>1. Typed
  BY TypedInit
<1>2. Pointed
  BY DEF Init, Pointed, CallPointed, HoldsAnswer, EditsUser, Idle
<1> QED
  BY <1>1, <1>2 DEF Base

LEMMA BaseStep ==
    ASSUME Base, [Next]_vars
    PROVE  Base'
<1>1. CASE UNCHANGED vars
  BY <1>1 DEF vars, Base, Typed, Pointed, CallPointed, HoldsAnswer, EditsUser
<1>2. CASE Crash
  BY <1>2, CrashBase
<1>3. ASSUME NEW c \in Call, Step(c) PROVE Base'
  <2>1. CASE SendRead(c)
    BY <2>1, SendReadBase
  <2>2. CASE SendUser(c)
    BY <2>2, SendUserBase
  <2>3. CASE Draft(c)
    BY <2>3, DraftBase
  <2>4. ASSUME NEW op \in {"regenerate", "continue"}, NEW i \in DOMAIN rows,
               AnswerRead(c, op, i)
        PROVE  Base'
    BY <2>4, AnswerReadBegins, BegunStep
  <2>5. CASE CheckLast(c)
    BY <2>5, CheckLastBase
  <2>6. CASE ListBefore(c)
    BY <2>6, ListBeforeBase
  <2>7. CASE ResetAssistantForRegenerate(c)
    BY <2>7, ResetBase
  <2>8. ASSUME NEW i \in DOMAIN rows, EditRead(c, i) PROVE Base'
    BY <2>8, EditReadBegins, BegunStep
  <2>9. ASSUME NEW i \in 0 .. Len(rows), EditMax(c, i) PROVE Base'
    BY <2>9, EditMaxBase
  <2>10. CASE EditTx(c)
    BY <2>10, EditTxBase
  <2>11. CASE EditList(c)
    BY <2>11, EditListBase
  <2>12. ASSUME NEW text \in {<<>>, <<calls[c].n>>}, Finish(c, text) PROVE Base'
    BY <2>12, FinishBase
  <2>13. ASSUME NEW text, FinishUnsaved(c, text) PROVE Base'
    BY <2>13, FinishUnsavedBase
  <2>14. CASE Record(c)
    BY <2>14, RecordBase
  <2>15. CASE Fail(c)
    BY <2>15, FailBase
  <2> QED
    BY <1>3, <2>1, <2>2, <2>3, <2>4, <2>5, <2>6, <2>7, <2>8, <2>9, <2>10, <2>11, <2>12,
       <2>13, <2>14, <2>15 DEF Step, Answers
<1> QED
  BY <1>1, <1>2, <1>3 DEF Next

(* What calls, rows and records hold has its type, and what they point at
   exists, for every number of calls. *)
THEOREM BaseHolds == Spec => []Base
<1>1. Init => Base
  BY BaseInit
<1>2. Base /\ [Next]_vars => Base'
  BY BaseStep
<1> QED
  BY <1>1, <1>2, PTL DEF Spec

-----------------------------------------------------------------------------
(* Deleted rows *)

\* Finish, seen from a row.
LEMMA FinishRow ==
    ASSUME Base, NEW c \in Call, NEW text \in {<<>>, <<calls[c].n>>}, Finish(c, text)
    PROVE  /\ calls[c].at = "stream" /\ calls[c].row \in DOMAIN rows
           /\ Len(rows') = Len(rows)
           /\ \A j \in DOMAIN rows :
                 /\ j # calls[c].row \/ rows[j].gone => rows'[j] = rows[j] /\ past'[j] = past[j]
                 /\ rows'[j].role = rows[j].role /\ rows'[j].gone = rows[j].gone
           /\ ~rows[calls[c].row].gone =>
                 /\ rows'[calls[c].row].content = Answer(c, text)
                 /\ past'[calls[c].row] = past[calls[c].row] \cup Texts(Answer(c, text))
<1>1. calls[c].row \in DOMAIN rows
  BY DEF Finish, Base, Pointed, CallPointed, HoldsAnswer
<1>2. UpdateContent(calls[c].row, Answer(c, text)) /\ Answer(c, text) \in Seq(Nat)
  BY AnswerSeq DEF Finish, Answer, Base
<1>3. PICK new \in Seq(Nat) : new = Answer(c, text)
  BY <1>2
<1>4. PICK i \in DOMAIN rows : i = calls[c].row
  BY <1>1
<1>5. UpdateContent(i, new)
  BY <1>2, <1>3, <1>4
<1>6. /\ Len(rows') = Len(rows)
      /\ \A j \in DOMAIN rows :
            /\ j # i \/ rows[j].gone => rows'[j] = rows[j] /\ past'[j] = past[j]
            /\ rows'[j].role = rows[j].role /\ rows'[j].gone = rows[j].gone
      /\ ~rows[i].gone => /\ rows'[i].content = new
                          /\ past'[i] = past[i] \cup Texts(new)
  BY <1>5, UpdateEffect DEF Base
<1> QED
  BY <1>3, <1>4, <1>6 DEF Finish

\* The reset, seen from a row.
LEMMA ResetRow ==
    ASSUME Base, NEW c \in Call, ResetAssistantForRegenerate(c)
    PROVE  /\ calls[c].at = "reset" /\ calls[c].row \in DOMAIN rows
           /\ Len(rows') = Len(rows) /\ past' = past /\ edits' = edits
           /\ \A j \in DOMAIN rows :
                 /\ j # calls[c].row \/ rows[j].gone => rows'[j] = rows[j]
                 /\ rows'[j].role = rows[j].role /\ rows'[j].gone = rows[j].gone
           /\ ~rows[calls[c].row].gone => /\ rows'[calls[c].row].content = <<>>
                                          /\ Go(c, "stream")
           /\ rows[calls[c].row].gone => Done(c)
<1>1. calls[c].at = "reset" /\ calls[c].row \in DOMAIN rows
  BY DEF ResetAssistantForRegenerate, Base, Pointed, CallPointed, HoldsAnswer
<1>2. CASE rows[calls[c].row].gone
  BY <1>1, <1>2 DEF ResetAssistantForRegenerate, history
<1>3. CASE ~rows[calls[c].row].gone
  <2>1. PICK i \in DOMAIN rows : i = calls[c].row
    BY <1>1
  <2>2. rows' = [rows EXCEPT ![i].content = <<>>]
    BY <1>3, <2>1 DEF ResetAssistantForRegenerate
  <2>3. /\ Len(rows') = Len(rows)
        /\ \A j \in DOMAIN rows :
              /\ j # i => rows'[j] = rows[j]
              /\ rows'[j].role = rows[j].role /\ rows'[j].gone = rows[j].gone
        /\ rows'[i].content = <<>>
    BY <2>2, EmptySeqTexts, WriteEffect DEF Base
  <2> QED
    BY <1>1, <1>3, <2>1, <2>3 DEF ResetAssistantForRegenerate, history
<1> QED
  BY <1>2, <1>3

\* A new row, seen from the others.
LEMMA CreateRow ==
    ASSUME Base, NEW c \in Call, SendUser(c) \/ Draft(c)
    PROVE  /\ edits' = edits /\ Len(rows') = Len(rows) + 1
           /\ \A j \in DOMAIN rows : rows'[j] = rows[j] /\ past'[j] = past[j]
           /\ ~rows'[Len(rows) + 1].gone
           /\ past'[Len(rows) + 1] = Texts(rows'[Len(rows) + 1].content)
           /\ SendUser(c) => rows'[Len(rows) + 1].role = "user"
           /\ Draft(c) => /\ rows'[Len(rows) + 1].role = "assistant"
                          /\ rows'[Len(rows) + 1].content = <<>>
<1>1. DOMAIN rows = 1 .. Len(rows)
  BY DEF Base, Typed
<1>2. CASE SendUser(c)
  <2>1. PICK content \in Seq(Nat) : content = <<calls[c].n>>
    BY TextSeq DEF Base, Typed, CallRec
  <2>2. Create("user", content) /\ edits' = edits
    BY <1>2, <2>1 DEF SendUser
  <2>3. ~Draft(c)
    BY <1>2 DEF SendUser, Draft
  <2>4. /\ Len(rows') = Len(rows) + 1
        /\ \A i \in 1 .. Len(rows) : rows'[i] = rows[i] /\ past'[i] = past[i]
        /\ rows'[Len(rows) + 1] = [role |-> "user", content |-> content,
                                   gone |-> FALSE, at |-> clock]
        /\ past'[Len(rows) + 1] = Texts(content)
    BY <2>2, CreateEffect DEF Base
  <2> QED
    BY <1>1, <2>2, <2>3, <2>4
<1>3. CASE Draft(c)
  <2>1. Create("assistant", <<>>) /\ edits' = edits
    BY <1>3 DEF Draft
  <2>2. ~SendUser(c)
    BY <1>3 DEF SendUser, Draft
  <2>3. /\ Len(rows') = Len(rows) + 1
        /\ \A i \in 1 .. Len(rows) : rows'[i] = rows[i] /\ past'[i] = past[i]
        /\ rows'[Len(rows) + 1] = [role |-> "assistant", content |-> <<>>,
                                   gone |-> FALSE, at |-> clock]
        /\ past'[Len(rows) + 1] = Texts(<<>>)
    BY <2>1, EmptySeqTexts, CreateEffect DEF Base
  <2> QED
    BY <1>1, <2>1, <2>2, <2>3
<1> QED
  BY <1>2, <1>3

\* What any step but the transaction of an edit does to deletion.
GoneKept ==
    /\ Len(rows) <= Len(rows')
    /\ \A j \in DOMAIN rows : /\ rows[j].gone => rows'[j] = rows[j]
                              /\ rows'[j].gone = rows[j].gone
    /\ \A j \in DOMAIN rows' \ DOMAIN rows : ~rows'[j].gone
    /\ \/ edits' = edits
       \/ \E e \in EditRec : edits' = Append(edits, e) /\ e.from = 0 /\ e.to = 0

LEMMA SameGone ==
    ASSUME Base, rows' = rows, edits' = edits
    PROVE  GoneKept
BY DEF GoneKept, Base, Typed

LEMMA StepGone ==
    ASSUME Base, NEW c \in Call, Step(c), ~EditTx(c)
    PROVE  GoneKept
<1>1. CASE SendUser(c) \/ Draft(c)
  <2>1. DOMAIN rows = 1 .. Len(rows) /\ Len(rows) \in Nat /\ Base'
    BY <1>1, SendUserBase, DraftBase DEF Base, Typed
  <2>2. DOMAIN rows' = 1 .. Len(rows')
    BY <2>1 DEF Base, Typed
  <2>3. \A j \in DOMAIN rows' \ DOMAIN rows : j = Len(rows) + 1
    <3>1. Len(rows') = Len(rows) + 1
      BY <1>1, CreateRow
    <3> QED
      BY <2>1, <2>2, <3>1
  <2>4. /\ edits' = edits /\ Len(rows') = Len(rows) + 1
        /\ \A j \in DOMAIN rows : rows'[j] = rows[j]
        /\ ~rows'[Len(rows) + 1].gone
    BY <1>1, CreateRow
  <2> QED
    BY <2>1, <2>3, <2>4 DEF GoneKept
<1>2. CASE ResetAssistantForRegenerate(c)
  <2>1. /\ Len(rows') = Len(rows) /\ edits' = edits
        /\ \A j \in DOMAIN rows : /\ rows[j].gone => rows'[j] = rows[j]
                                  /\ rows'[j].gone = rows[j].gone
    BY <1>2, ResetRow
  <2>2. DOMAIN rows' = DOMAIN rows /\ Len(rows) \in Nat
    BY <1>2, <2>1, ResetBase DEF Base, Typed
  <2> QED
    BY <2>1, <2>2 DEF GoneKept
<1>3. ASSUME NEW text \in {<<>>, <<calls[c].n>>}, Finish(c, text) PROVE GoneKept
  <2>1. /\ Len(rows') = Len(rows) /\ edits' = edits
        /\ \A j \in DOMAIN rows : /\ rows[j].gone => rows'[j] = rows[j]
                                  /\ rows'[j].gone = rows[j].gone
    BY <1>3, FinishRow DEF Finish, Ended
  <2>2. DOMAIN rows' = DOMAIN rows /\ Len(rows) \in Nat
    BY <1>3, <2>1, FinishBase DEF Base, Typed
  <2> QED
    BY <2>1, <2>2 DEF GoneKept
<1>4. CASE Record(c)
  <2>1. GoneKept \/ ~(rows' = rows)
    BY <1>4, RecordEffect DEF GoneKept, Base, Typed
  <2> QED
    BY <1>4, <2>1 DEF Record
<1>5. CASE SendRead(c) \/ CheckLast(c) \/ ListBefore(c) \/ EditList(c) \/ Fail(c)
  BY <1>5, SameGone DEF SendRead, CheckLast, ListBefore, EditList, Fail, history
<1>6. ASSUME NEW op, NEW i, AnswerRead(c, op, i) \/ EditRead(c, i) \/ EditMax(c, i)
      PROVE  GoneKept
  BY <1>6, SameGone DEF AnswerRead, EditRead, EditMax, history
<1>7. ASSUME NEW text, FinishUnsaved(c, text) PROVE GoneKept
  BY <1>7, SameGone DEF FinishUnsaved, Ended
<1> QED
  BY <1>1, <1>2, <1>3, <1>4, <1>5, <1>6, <1>7 DEF Step, Answers

LEMMA NextGone ==
    ASSUME Base, [Next]_vars
    PROVE  GoneKept \/ \E c \in Call : EditTx(c)
BY StepGone, SameGone DEF Next, Crash, vars

LEMMA FrozenStep ==
    ASSUME Base, [Next]_vars
    PROVE  \A i \in DOMAIN rows : rows[i].gone => rows'[i] = rows[i]
BY NextGone, EditTxEffect DEF GoneKept, Base

(* DeletedFrozen: whatever calls overlap, no call writes to a row after an
   edit has deleted it. *)
THEOREM DeletedStaysAsItWas == Spec => DeletedFrozen
<1>1. Base /\ [Next]_vars =>
        [\A i \in DOMAIN rows : rows[i].gone => rows'[i] = rows[i]]_vars
  BY FrozenStep
<1> QED
  BY <1>1, BaseHolds, PTL DEF Spec, DeletedFrozen

LEMMA GoneKeptRecorded ==
    ASSUME Base, Base', DeletedIsRecorded, GoneKept
    PROVE  DeletedIsRecorded'
<1>1. /\ DOMAIN rows = 1 .. Len(rows) /\ DOMAIN rows' = 1 .. Len(rows')
      /\ DOMAIN edits = 1 .. Len(edits) /\ DOMAIN edits' = 1 .. Len(edits')
      /\ Len(rows) \in Nat /\ Len(rows') \in Nat
  BY DEF Base, Typed
<1>2. \A k \in DOMAIN edits :
         edits[k].from \in Nat /\ edits[k].to \in Nat /\ edits[k].to <= Len(rows)
  BY EditNumbers DEF Base, Pointed
<1>3. ASSUME NEW i \in DOMAIN rows'
      PROVE  rows'[i].gone <=> \E k \in DOMAIN edits : edits[k].from < i /\ i <= edits[k].to
  <2>1. CASE i \in DOMAIN rows
    BY <2>1 DEF GoneKept, DeletedIsRecorded
  <2>2. CASE i \notin DOMAIN rows
    <3>1. ~rows'[i].gone
      BY <2>2 DEF GoneKept
    <3>2. i > Len(rows)
      BY <1>1, <2>2
    <3> QED
      BY <1>1, <1>2, <3>1, <3>2
  <2> QED
    BY <2>1, <2>2
<1>4. CASE edits' = edits
  BY <1>3, <1>4 DEF DeletedIsRecorded
<1>5. CASE \E e \in EditRec : edits' = Append(edits, e) /\ e.from = 0 /\ e.to = 0
  <2>1. PICK e \in EditRec : edits' = Append(edits, e) /\ e.from = 0 /\ e.to = 0
    BY <1>5
  <2>2. /\ Len(edits') = Len(edits) + 1
        /\ \A k \in 1 .. Len(edits) : edits'[k] = edits[k]
        /\ edits'[Len(edits) + 1] = e
    BY <2>1, AppendEdit DEF Base
  <2>3. ASSUME NEW i \in DOMAIN rows'
        PROVE  (\E k \in DOMAIN edits : edits[k].from < i /\ i <= edits[k].to)
               <=> (\E k \in DOMAIN edits' : edits'[k].from < i /\ i <= edits'[k].to)
    <3>1. ~(e.from < i /\ i <= e.to)
      BY <1>1, <2>1
    <3>2. DOMAIN edits' = DOMAIN edits \cup {Len(edits) + 1}
      BY <1>1, <2>2
    <3> QED
      BY <1>1, <2>2, <3>1, <3>2
  <2> QED
    BY <1>3, <2>3 DEF DeletedIsRecorded
<1> QED
  BY <1>4, <1>5 DEF GoneKept

LEMMA EditTxRecorded ==
    ASSUME Base, DeletedIsRecorded, NEW c \in Call, EditTx(c)
    PROVE  DeletedIsRecorded'
<1>1. PICK e \in EditRec : /\ edits' = Append(edits, e)
                           /\ e.from = calls[c].row /\ e.to = calls[c].max
  BY EditTxEffect DEF Base
<1>2. /\ Len(edits') = Len(edits) + 1
      /\ \A k \in 1 .. Len(edits) : edits'[k] = edits[k]
      /\ edits'[Len(edits) + 1] = e
  BY <1>1, AppendEdit DEF Base
<1>3. /\ Len(rows') = Len(rows)
      /\ \A j \in DOMAIN rows :
            rows'[j].gone = (rows[j].gone \/ (calls[c].row < j /\ j <= calls[c].max))
  BY EditTxEffect DEF Base
<1>4. Base'
  BY EditTxBase
<1>5. DOMAIN rows' = DOMAIN rows /\ DOMAIN edits' = DOMAIN edits \cup {Len(edits) + 1}
  BY <1>2, <1>3, <1>4 DEF Base, Typed
<1>6. DOMAIN edits = 1 .. Len(edits)
  BY DEF Base, Typed
<1>7. ASSUME NEW i \in DOMAIN rows
      PROVE  rows'[i].gone <=> \E k \in DOMAIN edits' : edits'[k].from < i /\ i <= edits'[k].to
  <2>1. (\E k \in DOMAIN edits' : edits'[k].from < i /\ i <= edits'[k].to)
        <=> \/ \E k \in DOMAIN edits : edits[k].from < i /\ i <= edits[k].to
            \/ e.from < i /\ i <= e.to
    BY <1>2, <1>5, <1>6
  <2>2. rows'[i].gone = (rows[i].gone \/ (calls[c].row < i /\ i <= calls[c].max))
    BY <1>3
  <2>3. rows[i].gone <=> \E k \in DOMAIN edits : edits[k].from < i /\ i <= edits[k].to
    BY DEF DeletedIsRecorded
  <2> QED
    BY <1>1, <2>1, <2>2, <2>3
<1> QED
  BY <1>5, <1>7 DEF DeletedIsRecorded

(* DeletedIsRecorded: a row is deleted exactly when a record of an edit covers
   it, for any overlap of the reading of the last id, of new rows and of edits. *)
THEOREM DeletionsOnRecord == Spec => []DeletedIsRecorded
<1>1. Init => DeletedIsRecorded
  BY DEF Init, DeletedIsRecorded
<1>2. Base /\ Base' /\ DeletedIsRecorded /\ [Next]_vars => DeletedIsRecorded'
  BY NextGone, GoneKeptRecorded, EditTxRecorded
<1> QED
  BY <1>1, <1>2, BaseHolds, PTL DEF Spec

-----------------------------------------------------------------------------
(* No text is lost.  NothingLost is not inductive: nothing in it relates what a
   call has read to what the row holds when the call writes. *)

\* The holder of an answer that nobody else has had finds it as it left it.
AnswerAsRead(c) ==
    HoldsAnswer(c) /\ calls[c].row \notin shared =>
        /\ \A d \in Call : HoldsAnswer(d) /\ calls[d].row = calls[c].row => d = c
        /\ calls[c].at \in {"last", "before", "reset"} =>
              rows[calls[c].row].content = calls[c].old
        /\ calls[c].at = "stream" =>
              rows[calls[c].row].content = IF calls[c].op = "continue" THEN calls[c].old
                                           ELSE <<>>

AnswersAsRead == \A c \in Call : AnswerAsRead(c)

\* What a user's row holds is what every edit to come has read, or is the new
\* text of an edit that is recorded.
UserKept(i) ==
    rows[i].role = "user" /\ ~rows[i].gone =>
        \/ \A c \in Call : calls[c].at \in {"max", "tx"} /\ calls[c].row = i =>
               calls[c].old = rows[i].content
        \/ \A t \in Texts(rows[i].content) :
               \E k \in DOMAIN edits : edits[k].msg = i /\ t \in Texts(edits[k].new)

UsersKept == \A i \in DOMAIN rows : UserKept(i)

\* The ways in which NothingLost has a text kept.
Recorded(i, t) == \E k \in DOMAIN edits :
                     edits[k].msg = i /\ t \in Texts(edits[k].old) \cup Texts(edits[k].new)
Excused(i) == rows[i].role = "assistant" /\ i \in shared \cup spoilt
Remembered(i, t) == \E c \in Call : Regenerates(c) /\ calls[c].row = i
                                    /\ t \in Texts(calls[c].old)

LEMMA NothingLostIs ==
    NothingLost <=> \A i \in DOMAIN rows : \A t \in past[i] :
                        \/ t \in Texts(rows[i].content)
                        \/ Recorded(i, t) \/ Excused(i) \/ Remembered(i, t)
BY DEF NothingLost, Recorded, Excused, Remembered

\* Records are only added.
EditsGrow == \A k \in DOMAIN edits : k \in DOMAIN edits' /\ edits'[k] = edits[k]

\* A step keeps what is kept otherwise than in the row.
KeepsApart ==
    \A i \in DOMAIN rows :
        /\ i \in DOMAIN rows' /\ (Excused(i) => Excused(i)')
        /\ \A t : Recorded(i, t) => Recorded(i, t)'
        /\ \A t : Remembered(i, t) =>
                     Recorded(i, t)' \/ Excused(i)' \/ Remembered(i, t)'

\* A step keeps what a row loses, and writes down what a row gains.
KeepsRow(i) ==
    /\ \A t \in past'[i] : \/ t \in Texts(rows'[i].content)
                           \/ i \in DOMAIN rows /\ t \in past[i]
    /\ i \in DOMAIN rows =>
          \A t \in Texts(rows[i].content) :
              \/ t \in Texts(rows'[i].content)
              \/ Recorded(i, t)' \/ Excused(i)' \/ Remembered(i, t)'

LEMMA KeptStep ==
    ASSUME NothingLost, KeepsApart, \A i \in DOMAIN rows' : KeepsRow(i)
    PROVE  NothingLost'
<1>1. ASSUME NEW i \in DOMAIN rows', NEW t \in past'[i]
      PROVE  \/ t \in Texts(rows'[i].content)
             \/ Recorded(i, t)' \/ Excused(i)' \/ Remembered(i, t)'
  <2>1. CASE t \in Texts(rows'[i].content)
    BY <2>1
  <2>2. CASE i \in DOMAIN rows /\ t \in past[i]
    <3>1. \/ t \in Texts(rows[i].content)
          \/ Recorded(i, t) \/ Excused(i) \/ Remembered(i, t)
      BY <2>2, NothingLostIs
    <3>2. CASE t \in Texts(rows[i].content)
      BY <2>2, <3>2 DEF KeepsRow
    <3>3. CASE Recorded(i, t) \/ Excused(i) \/ Remembered(i, t)
      BY <2>2, <3>3 DEF KeepsApart
    <3> QED
      BY <3>1, <3>2, <3>3
  <2> QED
    BY <2>1, <2>2 DEF KeepsRow
<1>2. NothingLost' <=> \A i \in DOMAIN rows' : \A t \in past'[i] :
                           \/ t \in Texts(rows'[i].content)
                           \/ Recorded(i, t)' \/ Excused(i)' \/ Remembered(i, t)'
  BY DEF NothingLost, Recorded, Excused, Remembered
<1> QED
  BY <1>1, <1>2

\* Records and answers given up only grow; the calls that remember an old answer
\* are still there, or have recorded it, or have given it up.
LEMMA ApartStep ==
    ASSUME RowsKept, EditsGrow, shared \subseteq shared', spoilt \subseteq spoilt',
           \A c \in Call : Regenerates(c) =>
              \/ Regenerates(c)' /\ calls'[c].row = calls[c].row
                                 /\ calls'[c].old = calls[c].old
              \/ \A i \in DOMAIN rows : i = calls[c].row => Excused(i)'
              \/ \A i \in DOMAIN rows : i = calls[c].row =>
                     \A t \in Texts(calls[c].old) : Recorded(i, t)'
    PROVE  KeepsApart
<1>1. ASSUME NEW i \in DOMAIN rows
      PROVE  i \in DOMAIN rows' /\ (Excused(i) => Excused(i)')
  BY DEF RowsKept, Excused
<1>2. ASSUME NEW i \in DOMAIN rows, NEW t, Recorded(i, t)
      PROVE  Recorded(i, t)'
  BY <1>2 DEF EditsGrow, Recorded
<1>3. ASSUME NEW i \in DOMAIN rows, NEW t, Remembered(i, t)
      PROVE  Recorded(i, t)' \/ Excused(i)' \/ Remembered(i, t)'
  <2>1. PICK c \in Call : Regenerates(c) /\ calls[c].row = i /\ t \in Texts(calls[c].old)
    BY <1>3 DEF Remembered
  <2>2. CASE Regenerates(c)' /\ calls'[c].row = calls[c].row /\ calls'[c].old = calls[c].old
    BY <2>1, <2>2 DEF Remembered
  <2>3. CASE \A j \in DOMAIN rows : j = calls[c].row => Excused(j)'
    BY <2>1, <2>3
  <2>4. CASE \A j \in DOMAIN rows : j = calls[c].row =>
                \A u \in Texts(calls[c].old) : Recorded(j, u)'
    BY <2>1, <2>4
  <2> QED
    BY <2>1, <2>2, <2>3, <2>4
<1> QED
  BY <1>1, <1>2, <1>3 DEF KeepsApart

\* Rows and their texts stay.
LEMMA SameTexts ==
    ASSUME rows' = rows, past' = past
    PROVE  \A i \in DOMAIN rows' : KeepsRow(i)
BY DEF KeepsRow
LEMMA SameEdits ==
    ASSUME edits' = edits
    PROVE  EditsGrow
BY DEF EditsGrow

LEMMA MoreEdits ==
    ASSUME Base, NEW e \in EditRec, edits' = Append(edits, e)
    PROVE  /\ EditsGrow
           /\ Len(edits) + 1 \in DOMAIN edits' /\ edits'[Len(edits) + 1] = e
<1>1. /\ Len(edits') = Len(edits) + 1 /\ edits' \in Seq(EditRec)
      /\ \A k \in 1 .. Len(edits) : edits'[k] = edits[k]
      /\ edits'[Len(edits) + 1] = e
  BY AppendEdit DEF Base
<1>2. DOMAIN edits = 1 .. Len(edits) /\ DOMAIN edits' = 1 .. Len(edits) + 1
      /\ Len(edits) \in Nat
  BY <1>1 DEF Base, Typed
<1> QED
  BY <1>1, <1>2 DEF EditsGrow

\* A step of a call that does not remember an old answer.
LEMMA ApartOthers ==
    ASSUME RowsKept, EditsGrow, NEW c \in Call, ~Regenerates(c),
           \A d \in Call \ {c} : calls'[d] = calls[d],
           shared \subseteq shared', spoilt' = spoilt
    PROVE  KeepsApart
<1>1. ASSUME NEW d \in Call, Regenerates(d)
      PROVE  Regenerates(d)' /\ calls'[d].row = calls[d].row /\ calls'[d].old = calls[d].old
  BY <1>1 DEF Regenerates
<1> QED
  BY <1>1, ApartStep

\* A step that writes no text, of such a call.
LEMMA QuietKeeps ==
    ASSUME Base, NothingLost, NEW c \in Call, ~Regenerates(c),
           \A d \in Call \ {c} : calls'[d] = calls[d],
           UNCHANGED <<rows, past, edits, spoilt>>, shared \subseteq shared'
    PROVE  NothingLost'
<1>1. RowsKept /\ EditsGrow /\ spoilt' = spoilt
  BY SameRows, SameEdits DEF Base
<1> QED
  BY <1>1, ApartOthers, SameTexts, KeptStep

LEMMA BegunKeeps ==
    ASSUME Base, NothingLost, NEW c \in Call, NEW v \in CallRec, Begin(c, v),
           UNCHANGED <<rows, past, edits, spoilt>>, shared \subseteq shared'
    PROVE  NothingLost'
<1>1. ~Regenerates(c) /\ \A d \in Call \ {c} : calls'[d] = calls[d]
  BY BeginEffect DEF Base, Regenerates, Idle
<1> QED
  BY <1>1, QuietKeeps

LEMMA ReadingKeeps ==
    ASSUME Base, NothingLost, NEW c \in Call,
           \/ SendRead(c)
           \/ \E op \in {"regenerate", "continue"}, i \in DOMAIN rows : AnswerRead(c, op, i)
           \/ \E i \in DOMAIN rows : EditRead(c, i)
    PROVE  NothingLost'
<1>1. CASE SendRead(c)
  <2>1. PICK v \in CallRec : Begin(c, v)
    BY <1>1, SendReadBegins
  <2>2. UNCHANGED <<rows, past, edits, spoilt>> /\ shared' = shared
    BY <1>1 DEF SendRead
  <2> QED
    BY <2>1, <2>2, BegunKeeps
<1>2. ASSUME NEW op \in {"regenerate", "continue"}, NEW i \in DOMAIN rows,
             AnswerRead(c, op, i)
      PROVE  NothingLost'
  <2>1. PICK v \in CallRec : Begin(c, v)
    BY <1>2, AnswerReadBegins
  <2>2. UNCHANGED <<rows, past, edits, spoilt>> /\ shared \subseteq shared'
    BY <1>2 DEF AnswerRead
  <2> QED
    BY <2>1, <2>2, BegunKeeps
<1>3. ASSUME NEW i \in DOMAIN rows, EditRead(c, i) PROVE NothingLost'
  <2>1. PICK v \in CallRec : Begin(c, v)
    BY <1>3, EditReadBegins
  <2>2. UNCHANGED <<rows, past, edits, spoilt>> /\ shared' = shared
    BY <1>3 DEF EditRead
  <2> QED
    BY <2>1, <2>2, BegunKeeps
<1> QED
  BY <1>1, <1>2, <1>3

LEMMA MovingKeeps ==
    ASSUME Base, NothingLost, NEW c \in Call,
           \/ CheckLast(c) \/ ListBefore(c) \/ EditList(c)
           \/ \E i \in 0 .. Len(rows) : EditMax(c, i)
    PROVE  NothingLost'
<1>1. \A d \in Call \ {c} : calls'[d] = calls[d]
  <2>1. CASE CheckLast(c)
    BY <2>1, GoEffect, DoneEffect DEF CheckLast, At, Moved, Base
  <2>2. CASE ListBefore(c)
    BY <2>2, ListBeforeMoves DEF Moved
  <2>3. CASE EditList(c)
    BY <2>3, EditListMoves DEF Moved
  <2>4. ASSUME NEW i \in 0 .. Len(rows), EditMax(c, i)
        PROVE  \A d \in Call \ {c} : calls'[d] = calls[d]
    BY <2>4, EditMaxEffect DEF Moved, Base
  <2> QED
    BY <2>1, <2>2, <2>3, <2>4
<1>2. ~Regenerates(c) /\ UNCHANGED <<rows, past, edits, spoilt>> /\ shared' = shared
  BY DEF CheckLast, ListBefore, EditList, EditMax, history, Regenerates
<1> QED
  BY <1>1, <1>2, QuietKeeps

LEMMA CreateKeeps ==
    ASSUME Base, NothingLost, NEW c \in Call, SendUser(c) \/ Draft(c)
    PROVE  NothingLost'
<1>1. Base' /\ \A d \in Call \ {c} : calls'[d] = calls[d]
  BY SendUserBase, DraftBase, SendUserMoves, DraftEffect DEF Base, Moved
<1>2. /\ edits' = edits /\ Len(rows') = Len(rows) + 1
      /\ \A j \in DOMAIN rows : rows'[j] = rows[j] /\ past'[j] = past[j]
      /\ past'[Len(rows) + 1] = Texts(rows'[Len(rows) + 1].content)
  BY CreateRow
<1>3. ~Regenerates(c) /\ shared' = shared /\ spoilt' = spoilt
  BY DEF SendUser, Draft, Regenerates
<1>4. DOMAIN rows = 1 .. Len(rows) /\ DOMAIN rows' = 1 .. Len(rows') /\ Len(rows) \in Nat
  BY <1>1 DEF Base, Typed
<1>5. RowsKept
  BY <1>2, <1>4 DEF RowsKept
<1>6. ASSUME NEW i \in DOMAIN rows' PROVE KeepsRow(i)
  <2>1. i \in DOMAIN rows \/ (i = Len(rows) + 1 /\ i \notin DOMAIN rows)
    BY <1>2, <1>4
  <2> QED
    BY <1>2, <2>1 DEF KeepsRow
<1> QED
  BY <1>1, <1>2, <1>3, <1>5, <1>6, SameEdits, ApartOthers, KeptStep

LEMMA ResetKeeps ==
    ASSUME Base, AnswersAsRead, NothingLost, NEW c \in Call,
           ResetAssistantForRegenerate(c)
    PROVE  NothingLost'
<1> DEFINE r == calls[c].row
<1>1. /\ calls[c].at = "reset" /\ r \in DOMAIN rows /\ past' = past /\ edits' = edits
      /\ \A j \in DOMAIN rows : /\ j # r \/ rows[j].gone => rows'[j] = rows[j]
                                /\ rows'[j].role = rows[j].role
      /\ Len(rows') = Len(rows)
      /\ rows[r].gone => Done(c)
      /\ ~rows[r].gone => Go(c, "stream")
  BY ResetRow
<1>2. shared' = shared /\ spoilt' = spoilt /\ ~Regenerates(c)
  BY DEF ResetAssistantForRegenerate, history, Regenerates
<1>3. \A d \in Call \ {c} : calls'[d] = calls[d]
  BY <1>1, DoneEffect, GoEffect DEF Base, At, Moved
<1>4. DOMAIN rows' = DOMAIN rows /\ RowsKept /\ EditsGrow
  BY <1>1, ResetBase, SameEdits DEF Base, Typed, RowsKept
<1>5. ASSUME NEW i \in DOMAIN rows' PROVE KeepsRow(i)
  <2>1. CASE i # r \/ rows[i].gone
    BY <1>1, <1>4, <2>1 DEF KeepsRow
  <2>2. CASE i = r /\ ~rows[i].gone
    <3>1. /\ Moved(c, "stream", r, calls[c].max) /\ calls[c].op = "regenerate"
          /\ rows[r].role = "assistant"
      BY <1>1, <2>2, GoEffect DEF Base, At, Pointed, CallPointed, HoldsAnswer
    <3>2. CASE r \in shared
      BY <1>1, <1>2, <1>4, <2>2, <3>1, <3>2 DEF KeepsRow, Excused
    <3>3. CASE r \notin shared
      <4>1. rows[r].content = calls[c].old
        BY <1>1, <3>3 DEF AnswersAsRead, AnswerAsRead, HoldsAnswer
      <4>2. ASSUME NEW t \in Texts(rows[r].content) PROVE Remembered(i, t)'
        BY <2>2, <3>1, <4>1 DEF Remembered, Regenerates, Moved
      <4> QED
        BY <1>1, <1>4, <2>2, <4>2 DEF KeepsRow
    <3> QED
      BY <3>2, <3>3
  <2> QED
    BY <2>1, <2>2
<1> QED
  BY <1>2, <1>3, <1>4, <1>5, ApartOthers, KeptStep
LEMMA EditTxKeeps ==
    ASSUME Base, UsersKept, NothingLost, NEW c \in Call, EditTx(c)
    PROVE  NothingLost'
<1> DEFINE r == calls[c].row
<1>1. PICK e \in EditRec : /\ edits' = Append(edits, e)
                           /\ e.msg = r /\ e.old = calls[c].old /\ e.new = <<calls[c].n>>
  BY EditTxEffect DEF Base
<1>2. /\ EditsGrow /\ Len(edits) + 1 \in DOMAIN edits' /\ edits'[Len(edits) + 1] = e
  BY <1>1, MoreEdits
<1>3. /\ Len(rows') = Len(rows)
      /\ \A j \in DOMAIN rows :
            /\ rows'[j].role = rows[j].role
            /\ rows'[j].content = IF j = r /\ ~rows[j].gone
                                  THEN <<calls[c].n>> ELSE rows[j].content
            /\ past'[j] = IF j = r /\ ~rows[j].gone
                          THEN past[j] \cup {calls[c].n} ELSE past[j]
      /\ Go(c, "upto") /\ shared' = shared /\ spoilt' = spoilt
  BY EditTxEffect DEF Base
<1>4. /\ DOMAIN rows' = DOMAIN rows /\ RowsKept
  <2>1. Len(rows') = Len(rows) /\ \A j \in DOMAIN rows : rows'[j].role = rows[j].role
    BY <1>3
  <2>2. DOMAIN rows' = 1 .. Len(rows') /\ DOMAIN rows = 1 .. Len(rows) /\ Len(rows) \in Nat
    BY EditTxBase DEF Base, Typed
  <2> QED
    BY <2>1, <2>2 DEF RowsKept
<1>5. calls[c].at = "tx" /\ ~Regenerates(c) /\ \A d \in Call \ {c} : calls'[d] = calls[d]
  BY <1>3, GoEffect DEF EditTx, Regenerates, Base, At, Moved
<1>6. r \in DOMAIN rows /\ rows[r].role = "user"
  BY <1>5 DEF Base, Pointed, CallPointed, EditsUser
<1>7. ASSUME NEW i \in DOMAIN rows' PROVE KeepsRow(i)
  <2>1. CASE ~(i = r /\ ~rows[i].gone)
    BY <1>3, <1>4, <2>1 DEF KeepsRow
  <2>2. CASE i = r /\ ~rows[i].gone
    <3>1. Texts(rows'[i].content) = {calls[c].n} /\ past'[i] = past[i] \cup {calls[c].n}
      BY <1>3, <1>4, <2>2, TextSeq DEF Base, Typed, CallRec
    <3>2. ASSUME NEW t \in Texts(rows[i].content) PROVE Recorded(i, t)'
      <4>1. CASE calls[c].old = rows[i].content
        BY <1>1, <1>2, <2>2, <4>1 DEF Recorded
      <4>2. CASE \E k \in DOMAIN edits : edits[k].msg = i /\ t \in Texts(edits[k].new)
        BY <1>2, <4>2 DEF Recorded, EditsGrow
      <4> QED
        BY <1>5, <1>6, <2>2, <4>1, <4>2 DEF UsersKept, UserKept
    <3> QED
      BY <1>4, <3>1, <3>2 DEF KeepsRow
  <2> QED
    BY <2>1, <2>2
<1> QED
  BY <1>2, <1>3, <1>4, <1>5, <1>7, ApartOthers, KeptStep

\* The end of a stream, and what it does to an old answer that is remembered.
LEMMA EndedApart ==
    ASSUME Base, NEW c \in Call, NEW text, Ended(c, text), calls[c].at = "stream",
           RowsKept
    PROVE  KeepsApart
<1>1. edits' = edits /\ shared' = shared
  BY DEF Ended
<1>2. calls[c].row \in DOMAIN rows /\ rows[calls[c].row].role = "assistant"
  BY DEF Base, Pointed, CallPointed, HoldsAnswer
<1>3. CASE calls[c].op = "regenerate" /\ UNCHANGED spoilt
           /\ Moved(c, "record", calls[c].row, calls[c].max)
  <2>1. ASSUME NEW d \in Call, Regenerates(d)
        PROVE  Regenerates(d)' /\ calls'[d].row = calls[d].row /\ calls'[d].old = calls[d].old
    BY <1>3, <2>1 DEF Regenerates, Moved
  <2> QED
    BY <1>1, <1>3, <2>1, SameEdits, ApartStep
<1>4. CASE /\ \A d \in Call \ {c} : calls'[d] = calls[d]
           /\ spoilt' = spoilt \cup {calls[d].row : d \in {d \in {c} : Regenerates(d)}}
  <2>1. ASSUME NEW d \in Call, Regenerates(d)
        PROVE  \/ Regenerates(d)' /\ calls'[d].row = calls[d].row /\ calls'[d].old = calls[d].old
               \/ \A i \in DOMAIN rows : i = calls[d].row => Excused(i)'
    <3>1. CASE d # c
      BY <1>4, <2>1, <3>1 DEF Regenerates
    <3>2. CASE d = c
      BY <1>2, <1>4, <2>1, <3>2 DEF Excused, RowsKept
    <3> QED
      BY <3>1, <3>2
  <2> QED
    BY <1>1, <1>4, <2>1, SameEdits, ApartStep
<1> QED
  BY <1>3, <1>4, EndedMoves DEF Base

LEMMA FinishKeeps ==
    ASSUME Base, AnswersAsRead, NothingLost, NEW c \in Call,
           NEW text \in {<<>>, <<calls[c].n>>}, Finish(c, text)
    PROVE  NothingLost'
<1> DEFINE r == calls[c].row
<1>1. /\ calls[c].at = "stream" /\ r \in DOMAIN rows /\ Len(rows') = Len(rows)
      /\ \A j \in DOMAIN rows :
            /\ j # r \/ rows[j].gone => rows'[j] = rows[j] /\ past'[j] = past[j]
            /\ rows'[j].role = rows[j].role
      /\ ~rows[r].gone => /\ rows'[r].content = Answer(c, text)
                          /\ past'[r] = past[r] \cup Texts(Answer(c, text))
  BY FinishRow
<1>2. DOMAIN rows' = DOMAIN rows /\ RowsKept
  BY <1>1, FinishBase DEF Base, Typed, RowsKept
<1>3. KeepsApart /\ shared' = shared
  BY <1>1, <1>2, EndedApart DEF Finish, Ended
<1>4. rows[r].role = "assistant" /\ calls[c].old \in Seq(Nat) /\ text \in Seq(Nat)
  BY <1>1, AnswerSeq DEF Base, Typed, Pointed, CallPointed, HoldsAnswer, CallRec
<1>5. ASSUME NEW i \in DOMAIN rows' PROVE KeepsRow(i)
  <2>1. CASE i # r \/ rows[i].gone
    BY <1>1, <1>2, <2>1 DEF KeepsRow
  <2>2. CASE i = r /\ ~rows[i].gone
    <3>1. \A t \in past'[i] : t \in Texts(rows'[i].content) \/ t \in past[i]
      BY <1>1, <2>2
    <3>2. CASE r \in shared
      BY <1>1, <1>2, <1>3, <1>4, <2>2, <3>1, <3>2 DEF KeepsRow, Excused
    <3>3. CASE r \notin shared
      <4>1. rows[r].content = IF calls[c].op = "continue" THEN calls[c].old ELSE <<>>
        BY <1>1, <3>3 DEF AnswersAsRead, AnswerAsRead, HoldsAnswer
      <4>2. Texts(rows[r].content) \subseteq Texts(Answer(c, text))
        <5>1. CASE calls[c].op = "continue"
          <6>1. ASSUME NEW k \in DOMAIN calls[c].old
                PROVE  /\ k \in DOMAIN (calls[c].old \o text)
                       /\ (calls[c].old \o text)[k] = calls[c].old[k]
            BY <1>4
          <6> QED
            BY <4>1, <5>1, <6>1 DEF Answer, Texts
        <5>2. CASE calls[c].op # "continue"
          BY <4>1, <5>2, EmptySeqTexts
        <5> QED
          BY <5>1, <5>2
      <4> QED
        BY <1>1, <1>2, <2>2, <3>1, <4>2 DEF KeepsRow
    <3> QED
      BY <3>2, <3>3
  <2> QED
    BY <2>1, <2>2
<1> QED
  BY <1>3, <1>5, KeptStep

LEMMA FinishUnsavedKeeps ==
    ASSUME Base, NothingLost, NEW c \in Call, NEW text, FinishUnsaved(c, text)
    PROVE  NothingLost'
<1>1. rows' = rows /\ past' = past /\ Ended(c, text) /\ calls[c].at = "stream"
  BY DEF FinishUnsaved
<1>2. RowsKept
  BY <1>1, SameRows DEF Base
<1> QED
  BY <1>1, <1>2, EndedApart, SameTexts, KeptStep

LEMMA RecordKeeps ==
    ASSUME Base, NothingLost, NEW c \in Call, Record(c)
    PROVE  NothingLost'
<1>1. PICK e \in EditRec : /\ edits' = Append(edits, e)
                           /\ e.msg = calls[c].row /\ e.old = calls[c].old
  BY RecordEffect DEF Base
<1>2. EditsGrow /\ Len(edits) + 1 \in DOMAIN edits' /\ edits'[Len(edits) + 1] = e
  BY <1>1, MoreEdits
<1>3. /\ rows' = rows /\ past' = past /\ shared' = shared /\ spoilt' = spoilt /\ RowsKept
      /\ \A d \in Call \ {c} : calls'[d] = calls[d]
  BY DoneEffect, SameRows DEF Record, Base
<1>4. ASSUME NEW d \in Call, Regenerates(d)
      PROVE  \/ Regenerates(d)' /\ calls'[d].row = calls[d].row /\ calls'[d].old = calls[d].old
             \/ \A i \in DOMAIN rows : i = calls[d].row =>
                    \A t \in Texts(calls[d].old) : Recorded(i, t)'
  <2>1. CASE d # c
    BY <1>3, <1>4, <2>1 DEF Regenerates
  <2>2. CASE d = c
    BY <1>1, <1>2, <2>2 DEF Recorded
  <2> QED
    BY <2>1, <2>2
<1> QED
  BY <1>2, <1>3, <1>4, ApartStep, SameTexts, KeptStep

LEMMA FailKeeps ==
    ASSUME Base, NothingLost, NEW c \in Call, Fail(c)
    PROVE  NothingLost'
<1>1. /\ UNCHANGED <<rows, past, edits, shared>> /\ RowsKept
      /\ \A d \in Call \ {c} : calls'[d] = calls[d]
      /\ spoilt' = spoilt \cup {calls[d].row : d \in {d \in {c} : Regenerates(d)}}
  BY DoneEffect, SameRows DEF Fail, Spoil, Base
<1>2. ASSUME NEW d \in Call, Regenerates(d)
      PROVE  \/ Regenerates(d)' /\ calls'[d].row = calls[d].row /\ calls'[d].old = calls[d].old
             \/ \A i \in DOMAIN rows : i = calls[d].row => Excused(i)'
  <2>1. CASE d # c
    BY <1>1, <1>2, <2>1 DEF Regenerates
  <2>2. CASE d = c
    <3>1. rows[calls[c].row].role = "assistant"
      BY <1>2, <2>2 DEF Regenerates, Base, Pointed, CallPointed, HoldsAnswer
    <3> QED
      BY <1>1, <1>2, <2>2, <3>1 DEF Excused
  <2> QED
    BY <2>1, <2>2
<1> QED
  BY <1>1, <1>2, SameEdits, ApartStep, SameTexts, KeptStep

LEMMA CrashKeeps ==
    ASSUME Base, NothingLost, Crash
    PROVE  NothingLost'
<1>1. /\ UNCHANGED <<rows, past, edits, shared>> /\ RowsKept
      /\ spoilt' = spoilt \cup {calls[d].row : d \in {d \in Call : Regenerates(d)}}
  BY SameRows DEF Crash, Spoil, Base
<1>2. ASSUME NEW d \in Call, Regenerates(d)
      PROVE  \A i \in DOMAIN rows : i = calls[d].row => Excused(i)'
  <2>1. rows[calls[d].row].role = "assistant"
    BY <1>2 DEF Regenerates, Base, Pointed, CallPointed, HoldsAnswer
  <2> QED
    BY <1>1, <1>2, <2>1 DEF Excused
<1> QED
  BY <1>1, <1>2, SameEdits, ApartStep, SameTexts, KeptStep
\* A step of c: what it has to show for AnswersAsRead.
LEMMA AnswersStep ==
    ASSUME Base, AnswersAsRead, NEW c \in Call,
           \A d \in Call \ {c} : calls'[d] = calls[d],
           shared \subseteq shared',
           \A j \in DOMAIN rows :
              rows[j].role = "assistant" /\ ~(HoldsAnswer(c) /\ j = calls[c].row) =>
                  rows'[j].content = rows[j].content,
           HoldsAnswer(c)' =>
              \/ HoldsAnswer(c) /\ calls'[c].row = calls[c].row
              \/ calls'[c].row \in shared'
              \/ \A d \in Call \ {c} : calls[d].row # calls'[c].row,
           HoldsAnswer(c)' /\ calls'[c].row \notin shared' =>
              /\ calls'[c].at \in {"last", "before", "reset"} =>
                    rows'[calls'[c].row].content = calls'[c].old
              /\ calls'[c].at = "stream" =>
                    rows'[calls'[c].row].content =
                       IF calls'[c].op = "continue" THEN calls'[c].old ELSE <<>>
    PROVE  AnswersAsRead'
<1>1. ASSUME NEW d \in Call, d # c, HoldsAnswer(d), calls[d].row \notin shared'
      PROVE  /\ ~(HoldsAnswer(c)' /\ calls'[c].row = calls[d].row)
             /\ rows'[calls[d].row].content = rows[calls[d].row].content
  <2>1. \A e \in Call : HoldsAnswer(e) /\ calls[e].row = calls[d].row => e = d
    BY <1>1 DEF AnswersAsRead, AnswerAsRead
  <2>2. calls[d].row \in DOMAIN rows /\ rows[calls[d].row].role = "assistant"
    BY <1>1 DEF Base, Pointed, CallPointed
  <2> QED
    BY <1>1, <2>1, <2>2
<1>2. ASSUME NEW d \in Call, d # c PROVE AnswerAsRead(d)'
  <2>1. calls'[d] = calls[d] /\ (HoldsAnswer(d)' <=> HoldsAnswer(d))
    BY <1>2 DEF HoldsAnswer
  <2>2. SUFFICES ASSUME HoldsAnswer(d), calls[d].row \notin shared'
                 PROVE  AnswerAsRead(d)'
    BY <2>1 DEF AnswerAsRead
  <2>3. AnswerAsRead(d) /\ calls[d].row \notin shared
    BY <2>2 DEF AnswersAsRead
  <2>4. ASSUME NEW e \in Call, HoldsAnswer(e)', calls'[e].row = calls[d].row
        PROVE  e = d
    <3>1. CASE e = c
      BY <1>1, <1>2, <2>2, <2>4, <3>1
    <3>2. CASE e # c
      <4>1. HoldsAnswer(e) /\ calls[e].row = calls[d].row
        BY <2>4, <3>2 DEF HoldsAnswer
      <4> QED
        BY <2>2, <2>3, <4>1 DEF AnswerAsRead
    <3> QED
      BY <3>1, <3>2
  <2>5. rows'[calls[d].row].content = rows[calls[d].row].content
    BY <1>1, <1>2, <2>2
  <2> QED
    BY <2>1, <2>2, <2>3, <2>4, <2>5 DEF AnswerAsRead
<1>3. AnswerAsRead(c)'
  <2>1. SUFFICES ASSUME HoldsAnswer(c)', calls'[c].row \notin shared'
                 PROVE  AnswerAsRead(c)'
    BY DEF AnswerAsRead
  <2>2. ASSUME NEW e \in Call, HoldsAnswer(e)', calls'[e].row = calls'[c].row
        PROVE  e = c
    <3>1. SUFFICES ASSUME e # c PROVE FALSE
      OBVIOUS
    <3>2. HoldsAnswer(e) /\ calls[e].row = calls'[c].row
      BY <2>2, <3>1 DEF HoldsAnswer
    <3> QED
      BY <1>1, <2>1, <2>2, <3>1, <3>2
  <2> QED
    BY <2>1, <2>2 DEF AnswerAsRead
<1> QED
  BY <1>2, <1>3 DEF AnswersAsRead

\* A step of c that leaves it without an answer.
LEMMA AnswersLeft ==
    ASSUME Base, AnswersAsRead, NEW c \in Call,
           \A d \in Call \ {c} : calls'[d] = calls[d], ~HoldsAnswer(c)',
           shared' = shared,
           \A j \in DOMAIN rows :
              rows[j].role = "assistant" /\ ~(HoldsAnswer(c) /\ j = calls[c].row) =>
                  rows'[j].content = rows[j].content
    PROVE  AnswersAsRead'
BY AnswersStep

LEMMA AnswersReading ==
    ASSUME Base, AnswersAsRead, NEW c \in Call,
           \/ SendRead(c)
           \/ \E op \in {"regenerate", "continue"}, i \in DOMAIN rows : AnswerRead(c, op, i)
           \/ \E i \in DOMAIN rows : EditRead(c, i)
    PROVE  AnswersAsRead'
<1>1. CASE SendRead(c)
  <2>1. PICK v \in CallRec : Begin(c, v) /\ v.at = "user"
    BY <1>1, SendReadBegins
  <2>2. calls'[c].at = "user" /\ \A d \in Call \ {c} : calls'[d] = calls[d]
    BY <2>1, BeginEffect DEF Base
  <2>3. rows' = rows /\ shared' = shared
    BY <1>1 DEF SendRead
  <2> QED
    BY <2>2, <2>3, AnswersLeft DEF HoldsAnswer
<1>2. ASSUME NEW op \in {"regenerate", "continue"}, NEW i \in DOMAIN rows,
             AnswerRead(c, op, i)
      PROVE  AnswersAsRead'
  <2>1. PICK v \in CallRec : Begin(c, v) /\ v.at = "last" /\ v.row = i
                             /\ v.old = rows[i].content
    BY <1>2, AnswerReadBegins
  <2>2. /\ calls'[c].at = "last" /\ calls'[c].row = i /\ calls'[c].old = rows[i].content
        /\ \A d \in Call \ {c} : calls'[d] = calls[d]
    BY <2>1, BeginEffect DEF Base
  <2>3. /\ rows' = rows /\ shared \subseteq shared'
        /\ (\E d \in Call : calls[d].row = i) => i \in shared'
    BY <1>2 DEF AnswerRead
  <2> QED
    BY <2>2, <2>3, AnswersStep
<1>3. ASSUME NEW i \in DOMAIN rows, EditRead(c, i) PROVE AnswersAsRead'
  <2>1. PICK v \in CallRec : Begin(c, v) /\ v.at = "max"
    BY <1>3, EditReadBegins
  <2>2. calls'[c].at = "max" /\ \A d \in Call \ {c} : calls'[d] = calls[d]
    BY <2>1, BeginEffect DEF Base
  <2>3. rows' = rows /\ shared' = shared
    BY <1>3 DEF EditRead
  <2> QED
    BY <2>2, <2>3, AnswersLeft DEF HoldsAnswer
<1> QED
  BY <1>1, <1>2, <1>3

LEMMA AnswersMoving ==
    ASSUME Base, AnswersAsRead, NEW c \in Call,
           \/ CheckLast(c) \/ ListBefore(c) \/ EditList(c)
           \/ \E i \in 0 .. Len(rows) : EditMax(c, i)
    PROVE  AnswersAsRead'
<1>1. rows' = rows /\ shared' = shared
  BY DEF CheckLast, ListBefore, EditList, EditMax, history
<1>2. CASE CheckLast(c)
  <2>1. CASE Go(c, "before")
    BY <1>1, <1>2, <2>1, GoEffect, AnswersStep
       DEF CheckLast, Base, At, Moved, HoldsAnswer, AnswersAsRead, AnswerAsRead
  <2>2. CASE Done(c)
    BY <1>1, <2>2, DoneEffect, AnswersLeft DEF Base, Idle, HoldsAnswer
  <2> QED
    BY <1>2, <2>1, <2>2 DEF CheckLast
<1>3. CASE ListBefore(c)
  <2>1. /\ calls[c].at = "before" /\ AnswerAsRead(c)
        /\ \A d \in Call \ {c} : calls'[d] = calls[d]
        /\ calls'[c].row = calls[c].row /\ calls'[c].old = calls[c].old
        /\ calls'[c].op = calls[c].op
        /\ calls'[c].at = "reset" \/ (calls'[c].at = "stream" /\ calls[c].op = "continue")
    BY <1>3, ListBeforeMoves DEF ListBefore, Moved, AnswersAsRead
  <2> QED
    BY <1>1, <2>1, AnswersStep DEF HoldsAnswer, AnswerAsRead
<1>4. CASE EditList(c)
  BY <1>1, <1>4, EditListMoves, AnswersLeft DEF Moved, HoldsAnswer
<1>5. ASSUME NEW i \in 0 .. Len(rows), EditMax(c, i) PROVE AnswersAsRead'
  BY <1>1, <1>5, EditMaxEffect, AnswersLeft DEF Base, Moved, HoldsAnswer
<1> QED
  BY <1>2, <1>3, <1>4, <1>5

LEMMA AnswersWriting ==
    ASSUME Base, AnswersAsRead, NEW c \in Call,
           SendUser(c) \/ Draft(c) \/ EditTx(c) \/ ResetAssistantForRegenerate(c)
    PROVE  AnswersAsRead'
<1>1. shared' = shared
  BY DEF SendUser, Draft, EditTx, ResetAssistantForRegenerate, history
<1>2. CASE SendUser(c)
  BY <1>1, <1>2, CreateRow, SendUserMoves, AnswersLeft DEF Moved, HoldsAnswer
<1>3. CASE Draft(c)
  <2>1. /\ \A j \in DOMAIN rows : rows'[j] = rows[j]
        /\ rows'[Len(rows) + 1].content = <<>>
    BY <1>3, CreateRow
  <2>2. /\ \A d \in Call \ {c} : calls'[d] = calls[d]
        /\ calls'[c].at = "stream" /\ calls'[c].row = Len(rows) + 1
        /\ calls'[c].op = calls[c].op /\ calls[c].op \in {"send", "edit"}
    BY <1>3, DraftEffect DEF Draft, Base, Moved, Pointed, CallPointed
  <2>3. \A d \in Call : calls[d].row # Len(rows) + 1
    BY DEF Base, Typed, CallRec, Pointed, CallPointed
  <2> QED
    BY <1>1, <2>1, <2>2, <2>3, AnswersStep
<1>4. CASE EditTx(c)
  <2>1. /\ \A j \in DOMAIN rows : rows[j].role = "assistant" =>
              rows'[j].content = rows[j].content
        /\ Go(c, "upto")
    <3>1. calls[c].at = "tx" /\ CallPointed(c)
      BY <1>4 DEF EditTx, Base, Pointed
    <3>2. rows[calls[c].row].role = "user"
      BY <3>1 DEF CallPointed, EditsUser
    <3>3. /\ Go(c, "upto")
          /\ \A j \in DOMAIN rows : rows'[j].content = IF j = calls[c].row /\ ~rows[j].gone
                                                      THEN <<calls[c].n>> ELSE rows[j].content
      BY <1>4, EditTxEffect DEF Base
    <3> QED
      BY <3>2, <3>3
  <2> QED
    BY <1>1, <2>1, GoEffect, AnswersLeft DEF Base, At, Moved, HoldsAnswer
<1>5. CASE ResetAssistantForRegenerate(c)
  <2>1. /\ calls[c].at = "reset" /\ \A j \in DOMAIN rows \ {calls[c].row} : rows'[j] = rows[j]
    BY <1>5, ResetRow
  <2>2. CASE Done(c)
    BY <1>1, <2>1, <2>2, DoneEffect, AnswersLeft DEF Base, Idle, HoldsAnswer
  <2>3. CASE Go(c, "stream") /\ rows'[calls[c].row].content = <<>>
    <3>1. /\ calls[c].op = "regenerate"
          /\ Moved(c, "stream", calls[c].row, calls[c].max)
      BY <2>1, <2>3, GoEffect DEF Base, At, Pointed, CallPointed
    <3> QED
      BY <1>1, <2>1, <2>3, <3>1, AnswersStep DEF Moved, HoldsAnswer
  <2> QED
    BY <1>5, <2>2, <2>3, ResetRow
<1> QED
  BY <1>2, <1>3, <1>4, <1>5

LEMMA AnswersEnding ==
    ASSUME Base, AnswersAsRead, NEW c \in Call,
           \/ Record(c) \/ Fail(c)
           \/ \E text \in {<<>>, <<calls[c].n>>} : Finish(c, text) \/ FinishUnsaved(c, text)
    PROVE  AnswersAsRead'
<1>1. CASE Record(c) \/ Fail(c)
  <2>1. Done(c) /\ rows' = rows /\ shared' = shared
    BY <1>1 DEF Record, Fail
  <2> QED
    BY <2>1, DoneEffect, AnswersLeft DEF Base, Idle, HoldsAnswer
<1>2. ASSUME NEW text \in {<<>>, <<calls[c].n>>}, Finish(c, text) \/ FinishUnsaved(c, text)
      PROVE  AnswersAsRead'
  <2>1. /\ calls[c].at = "stream" /\ Ended(c, text)
        /\ \A j \in DOMAIN rows \ {calls[c].row} : rows'[j] = rows[j]
    BY <1>2, FinishRow DEF Finish, FinishUnsaved
  <2>2. shared' = shared
    BY <2>1 DEF Ended
  <2>3. /\ \A d \in Call \ {c} : calls'[d] = calls[d]
        /\ calls'[c] = Idle \/ (calls'[c].at = "record" /\ calls'[c].row = calls[c].row)
    BY <2>1, EndedMoves DEF Base, Moved
  <2> QED
    BY <2>1, <2>2, <2>3, AnswersStep DEF Idle, HoldsAnswer
<1> QED
  BY <1>1, <1>2

LEMMA AnswersCrash ==
    ASSUME Crash
    PROVE  AnswersAsRead'
BY DEF Crash, AnswersAsRead, AnswerAsRead, HoldsAnswer, Idle
\* A step of c that writes no user's row.
LEMMA UsersStep ==
    ASSUME Base, UsersKept, NEW c \in Call,
           \A d \in Call \ {c} : calls'[d] = calls[d], EditsGrow,
           \A i \in DOMAIN rows' : rows'[i].role = "user" /\ ~rows'[i].gone =>
              /\ i \in DOMAIN rows /\ rows[i].role = "user" /\ ~rows[i].gone
              /\ rows'[i].content = rows[i].content,
           calls'[c].at \in {"max", "tx"} =>
              \/ calls'[c].old = rows'[calls'[c].row].content
              \/ /\ calls[c].at \in {"max", "tx"}
                 /\ calls'[c].row = calls[c].row /\ calls'[c].old = calls[c].old
    PROVE  UsersKept'
<1>1. ASSUME NEW i \in DOMAIN rows' PROVE UserKept(i)'
  <2>1. SUFFICES ASSUME rows'[i].role = "user", ~rows'[i].gone PROVE UserKept(i)'
    BY DEF UserKept
  <2>2. /\ i \in DOMAIN rows /\ rows[i].role = "user" /\ ~rows[i].gone
        /\ rows'[i].content = rows[i].content
    BY <2>1
  <2>3. CASE \A d \in Call : calls[d].at \in {"max", "tx"} /\ calls[d].row = i =>
                calls[d].old = rows[i].content
    <3>1. ASSUME NEW d \in Call, calls'[d].at \in {"max", "tx"}, calls'[d].row = i
          PROVE  calls'[d].old = rows'[i].content
      <4>1. CASE d = c
        BY <2>2, <2>3, <3>1, <4>1
      <4>2. CASE d # c
        BY <2>2, <2>3, <3>1, <4>2
      <4> QED
        BY <4>1, <4>2
    <3> QED
      BY <3>1 DEF UserKept
  <2>4. CASE \A t \in Texts(rows[i].content) :
                \E k \in DOMAIN edits : edits[k].msg = i /\ t \in Texts(edits[k].new)
    BY <2>2, <2>4 DEF UserKept, EditsGrow
  <2> QED
    BY <2>2, <2>3, <2>4 DEF UsersKept, UserKept
<1> QED
  BY <1>1 DEF UsersKept

LEMMA UsersQuiet ==
    ASSUME Base, UsersKept, NEW c \in Call,
           \/ SendRead(c)
           \/ \E op \in {"regenerate", "continue"}, i \in DOMAIN rows : AnswerRead(c, op, i)
           \/ \E i \in DOMAIN rows : EditRead(c, i)
           \/ CheckLast(c) \/ ListBefore(c) \/ EditList(c)
           \/ \E i \in 0 .. Len(rows) : EditMax(c, i)
           \/ Fail(c)
    PROVE  UsersKept'
<1>1. rows' = rows /\ edits' = edits
  BY DEF SendRead, AnswerRead, EditRead, CheckLast, ListBefore, EditList, EditMax, Fail,
         history
<1>2. SUFFICES /\ \A d \in Call \ {c} : calls'[d] = calls[d]
               /\ calls'[c].at \in {"max", "tx"} =>
                     \/ calls'[c].old = rows'[calls'[c].row].content
                     \/ /\ calls[c].at \in {"max", "tx"}
                        /\ calls'[c].row = calls[c].row /\ calls'[c].old = calls[c].old
  BY <1>1, SameEdits, UsersStep
<1>3. CASE SendRead(c)
  <2>1. PICK v \in CallRec : Begin(c, v) /\ v.at = "user"
    BY <1>3, SendReadBegins
  <2> QED
    BY <2>1, BeginEffect DEF Base
<1>4. ASSUME NEW op \in {"regenerate", "continue"}, NEW i \in DOMAIN rows,
             AnswerRead(c, op, i)
      PROVE  calls'[c].at = "last" /\ \A d \in Call \ {c} : calls'[d] = calls[d]
  BY <1>4, AnswerReadBegins, BeginEffect DEF Base
<1>5. ASSUME NEW i \in DOMAIN rows, EditRead(c, i)
      PROVE  /\ calls'[c].old = rows'[calls'[c].row].content
             /\ \A d \in Call \ {c} : calls'[d] = calls[d]
  BY <1>1, <1>5, EditReadBegins, BeginEffect DEF Base
<1>6. CASE CheckLast(c)
  BY <1>6, GoEffect, DoneEffect DEF CheckLast, Base, At, Moved, Idle
<1>7. CASE ListBefore(c)
  BY <1>7, ListBeforeMoves DEF Moved
<1>8. CASE EditList(c)
  BY <1>8, EditListMoves DEF Moved
<1>9. ASSUME NEW i \in 0 .. Len(rows), EditMax(c, i)
      PROVE  /\ calls[c].at = "max"
             /\ calls'[c].row = calls[c].row /\ calls'[c].old = calls[c].old
             /\ \A d \in Call \ {c} : calls'[d] = calls[d]
  BY <1>9, EditMaxEffect DEF EditMax, Base, Moved
<1>10. CASE Fail(c)
  BY <1>10, DoneEffect DEF Fail, Base, Idle
<1> QED
  BY <1>3, <1>4, <1>5, <1>6, <1>7, <1>8, <1>9, <1>10

\* Answers are written, reset and recorded: no user's row is.
LEMMA UsersAnswers ==
    ASSUME Base, UsersKept, NEW c \in Call,
           \/ Draft(c) \/ ResetAssistantForRegenerate(c) \/ Record(c)
           \/ \E text \in {<<>>, <<calls[c].n>>} : Finish(c, text) \/ FinishUnsaved(c, text)
    PROVE  UsersKept'
<1>1. CASE Draft(c)
  <2>1. /\ edits' = edits /\ Len(rows') = Len(rows) + 1
        /\ \A j \in DOMAIN rows : rows'[j] = rows[j]
        /\ rows'[Len(rows) + 1].role = "assistant"
    BY <1>1, CreateRow
  <2>2. DOMAIN rows = 1 .. Len(rows) /\ DOMAIN rows' = 1 .. Len(rows') /\ Len(rows) \in Nat
    BY <1>1, DraftBase DEF Base, Typed
  <2>3. \A i \in DOMAIN rows' : i \in DOMAIN rows \/ i = Len(rows) + 1
    BY <2>1, <2>2
  <2>4. calls'[c].at = "stream" /\ \A d \in Call \ {c} : calls'[d] = calls[d]
    BY <1>1, DraftEffect DEF Base, Moved
  <2> QED
    BY <2>1, <2>3, <2>4, SameEdits, UsersStep
<1>2. CASE ResetAssistantForRegenerate(c)
  <2>1. /\ Len(rows') = Len(rows) /\ edits' = edits
        /\ calls[c].at = "reset" /\ rows[calls[c].row].role = "assistant"
        /\ \A j \in DOMAIN rows : /\ j # calls[c].row => rows'[j] = rows[j]
                                  /\ rows'[j].role = rows[j].role
        /\ Done(c) \/ Go(c, "stream")
    BY <1>2, ResetRow DEF Base, Pointed, CallPointed, HoldsAnswer
  <2>2. DOMAIN rows' = DOMAIN rows
    BY <1>2, <2>1, ResetBase DEF Base, Typed
  <2>3. /\ calls'[c].at \in {"stream", "idle"}
        /\ \A d \in Call \ {c} : calls'[d] = calls[d]
    BY <2>1, GoEffect, DoneEffect DEF Base, At, Moved, Idle
  <2> QED
    BY <2>1, <2>2, <2>3, SameEdits, UsersStep
<1>3. CASE Record(c)
  <2>1. EditsGrow
    BY <1>3, RecordEffect, MoreEdits DEF Base
  <2>2. /\ rows' = rows /\ calls'[c].at = "idle"
        /\ \A d \in Call \ {c} : calls'[d] = calls[d]
    BY <1>3, DoneEffect DEF Record, Base, Idle
  <2> QED
    BY <2>1, <2>2, UsersStep
<1>4. ASSUME NEW text \in {<<>>, <<calls[c].n>>}, Finish(c, text) \/ FinishUnsaved(c, text)
      PROVE  UsersKept'
  <2>1. calls[c].at = "stream" /\ Ended(c, text)
    BY <1>4 DEF Finish, FinishUnsaved
  <2>2. /\ edits' = edits /\ calls'[c].at \in {"record", "idle"}
        /\ \A d \in Call \ {c} : calls'[d] = calls[d]
    <3>1. \/ calls'[c] = Idle /\ \A d \in Call \ {c} : calls'[d] = calls[d]
          \/ Moved(c, "record", calls[c].row, calls[c].max)
      BY <2>1, EndedMoves DEF Base
    <3>2. edits' = edits /\ Idle.at = "idle"
      BY <2>1 DEF Ended, Idle
    <3> QED
      BY <3>1, <3>2 DEF Moved
  <2>3. rows[calls[c].row].role = "assistant"
    BY <2>1 DEF Base, Pointed, CallPointed, HoldsAnswer
  <2>4. CASE Finish(c, text)
    <3>1. /\ Len(rows') = Len(rows)
          /\ \A j \in DOMAIN rows : /\ j # calls[c].row => rows'[j] = rows[j]
                                    /\ rows'[j].role = rows[j].role
      BY <2>4, FinishRow
    <3>2. DOMAIN rows' = DOMAIN rows
      BY <2>4, <3>1, FinishBase DEF Base, Typed
    <3> QED
      BY <2>2, <2>3, <3>1, <3>2, SameEdits, UsersStep
  <2>5. CASE FinishUnsaved(c, text)
    <3>1. rows' = rows
      BY <2>5 DEF FinishUnsaved
    <3> QED
      BY <2>2, <3>1, SameEdits, UsersStep
  <2> QED
    BY <1>4, <2>4, <2>5
<1> QED
  BY <1>1, <1>2, <1>3, <1>4

LEMMA UsersSend ==
    ASSUME Base, UsersKept, NEW c \in Call, SendUser(c)
    PROVE  UsersKept'
<1>1. /\ edits' = edits /\ Len(rows') = Len(rows) + 1
      /\ \A j \in DOMAIN rows : rows'[j] = rows[j]
  BY CreateRow
<1>2. DOMAIN rows = 1 .. Len(rows) /\ DOMAIN rows' = 1 .. Len(rows') /\ Len(rows) \in Nat
  BY SendUserBase DEF Base, Typed
<1>3. calls'[c].at = "draft" /\ \A d \in Call \ {c} : calls'[d] = calls[d]
  BY SendUserMoves DEF Moved
<1>4. ASSUME NEW i \in DOMAIN rows PROVE UserKept(i)'
  <2>1. UserKept(i) /\ rows'[i] = rows[i] /\ edits' = edits
    BY <1>1, <1>4 DEF UsersKept
  <2>2. ASSUME NEW d \in Call, calls'[d].at \in {"max", "tx"}
        PROVE  calls'[d] = calls[d]
    BY <1>3, <2>2
  <2> QED
    BY <2>1, <2>2 DEF UserKept
<1>5. ASSUME NEW i \in DOMAIN rows' PROVE UserKept(i)'
  <2>1. i \in DOMAIN rows \/ i = Len(rows) + 1
    BY <1>1, <1>2
  <2>2. \A d \in Call : calls[d].row # Len(rows) + 1
    BY DEF Base, Typed, CallRec, Pointed, CallPointed
  <2>3. CASE i = Len(rows) + 1
    BY <1>3, <2>2, <2>3 DEF UserKept
  <2> QED
    BY <1>4, <2>1, <2>3
<1> QED
  BY <1>5 DEF UsersKept

LEMMA UsersEditTx ==
    ASSUME Base, UsersKept, NEW c \in Call, EditTx(c)
    PROVE  UsersKept'
<1> DEFINE r == calls[c].row
<1>1. PICK e \in EditRec : /\ edits' = Append(edits, e)
                           /\ e.msg = r /\ e.new = <<calls[c].n>>
  BY EditTxEffect DEF Base
<1>2. EditsGrow /\ Len(edits) + 1 \in DOMAIN edits' /\ edits'[Len(edits) + 1] = e
  BY <1>1, MoreEdits
<1>3. /\ Len(rows') = Len(rows)
      /\ \A j \in DOMAIN rows :
            /\ rows'[j].role = rows[j].role /\ (rows[j].gone => rows'[j].gone)
            /\ rows'[j].content = IF j = r /\ ~rows[j].gone
                                  THEN <<calls[c].n>> ELSE rows[j].content
      /\ Go(c, "upto")
  BY EditTxEffect DEF Base
<1>4. DOMAIN rows' = DOMAIN rows
  BY <1>3, EditTxBase DEF Base, Typed
<1>5. calls'[c].at = "upto" /\ \A d \in Call \ {c} : calls'[d] = calls[d]
  BY <1>3, GoEffect DEF Base, At, Moved
<1>6. ASSUME NEW i \in DOMAIN rows' PROVE UserKept(i)'
  <2>1. CASE i = r /\ ~rows[i].gone
    BY <1>1, <1>2, <1>3, <1>4, <2>1 DEF UserKept
  <2>2. CASE ~(i = r /\ ~rows[i].gone)
    <3>1. rows'[i].content = rows[i].content /\ UserKept(i)
      BY <1>3, <1>4, <2>2 DEF UsersKept
    <3>2. CASE \A d \in Call : calls[d].at \in {"max", "tx"} /\ calls[d].row = i =>
                  calls[d].old = rows[i].content
      BY <1>5, <3>1, <3>2 DEF UserKept
    <3>3. CASE \A t \in Texts(rows[i].content) :
                  \E k \in DOMAIN edits : edits[k].msg = i /\ t \in Texts(edits[k].new)
      BY <1>2, <3>1, <3>3 DEF UserKept, EditsGrow
    <3> QED
      BY <1>3, <1>4, <3>1, <3>2, <3>3 DEF UserKept
  <2> QED
    BY <2>1, <2>2
<1> QED
  BY <1>6 DEF UsersKept

LEMMA UsersCrash ==
    ASSUME Crash
    PROVE  UsersKept'
BY DEF Crash, UsersKept, UserKept, Idle

-----------------------------------------------------------------------------
Kept == Base /\ AnswersAsRead /\ UsersKept /\ NothingLost

LEMMA KeptInit == Init => Kept
<1> SUFFICES ASSUME Init PROVE Kept
  OBVIOUS
<1>1. AnswersAsRead
  BY DEF Init, AnswersAsRead, AnswerAsRead, HoldsAnswer, Idle
<1>2. UsersKept /\ NothingLost
  BY DEF Init, UsersKept, NothingLost
<1> QED
  BY <1>1, <1>2, BaseInit DEF Kept

LEMMA KeptNext ==
    ASSUME Kept, [Next]_vars
    PROVE  Kept'
<1> USE DEF Kept
<1>1. Base'
  BY BaseStep
<1>2. CASE UNCHANGED vars
  BY <1>1, <1>2 DEF vars, AnswersAsRead, AnswerAsRead, HoldsAnswer, UsersKept, UserKept,
                    NothingLost, Regenerates
<1>3. CASE Crash
  BY <1>1, <1>3, AnswersCrash, UsersCrash, CrashKeeps
<1>4. ASSUME NEW c \in Call, Step(c) PROVE Kept'
  <2>1. CASE \/ SendRead(c)
             \/ \E op \in {"regenerate", "continue"}, i \in DOMAIN rows : AnswerRead(c, op, i)
             \/ \E i \in DOMAIN rows : EditRead(c, i)
    BY <1>1, <2>1, AnswersReading, UsersQuiet, ReadingKeeps
  <2>2. CASE \/ CheckLast(c) \/ ListBefore(c) \/ EditList(c)
             \/ \E i \in 0 .. Len(rows) : EditMax(c, i)
    BY <1>1, <2>2, AnswersMoving, UsersQuiet, MovingKeeps
  <2>3. CASE SendUser(c)
    BY <1>1, <2>3, AnswersWriting, UsersSend, CreateKeeps
  <2>4. CASE Draft(c)
    BY <1>1, <2>4, AnswersWriting, UsersAnswers, CreateKeeps
  <2>5. CASE ResetAssistantForRegenerate(c)
    BY <1>1, <2>5, AnswersWriting, UsersAnswers, ResetKeeps
  <2>6. CASE EditTx(c)
    BY <1>1, <2>6, AnswersWriting, UsersEditTx, EditTxKeeps
  <2>7. ASSUME NEW text \in {<<>>, <<calls[c].n>>}, Finish(c, text) PROVE Kept'
    BY <1>1, <2>7, AnswersEnding, UsersAnswers, FinishKeeps
  <2>8. ASSUME NEW text \in {<<>>, <<calls[c].n>>}, FinishUnsaved(c, text) PROVE Kept'
    BY <1>1, <2>8, AnswersEnding, UsersAnswers, FinishUnsavedKeeps
  <2>9. CASE Record(c)
    BY <1>1, <2>9, AnswersEnding, UsersAnswers, RecordKeeps
  <2>10. CASE Fail(c)
    BY <1>1, <2>10, AnswersEnding, UsersQuiet, FailKeeps
  <2> QED
    BY <1>4, <2>1, <2>2, <2>3, <2>4, <2>5, <2>6, <2>7, <2>8, <2>9, <2>10 DEF Step, Answers
<1> QED
  BY <1>2, <1>3, <1>4 DEF Next

(* NothingLost: however calls overlap, fail or are killed, a text that a row
   has held is still in it or in a record, but for an answer that two calls held
   at a time or that a Regenerate reset without recording it. *)
THEOREM TextsAreKept == Spec => []NothingLost
<1>1. Init => Kept
  BY KeptInit
<1>2. Kept /\ [Next]_vars => Kept'
  BY KeptNext
<1>3. Kept => NothingLost
  BY DEF Kept
<1> QED
  BY <1>1, <1>2, <1>3, PTL DEF Spec

-----------------------------------------------------------------------------
(* One call at a time *)

OneCall == \A c, d \in Call : calls[c] # Idle /\ calls[d] # Idle => c = d

AllUpTo(n) == \A k \in Visible : k <= n
LastIsUser == \E j \in Visible : rows[j].role = "user" /\ AllUpTo(j)

(* What the one call has read is so still: the rows it will ask about are the
   ones that are there, the answer it works on is the last row, and nothing
   comes after the rows that it is about to cut. *)
CallAsRead(c) ==
    /\ calls[c].at \in {"user", "draft", "stream"} => calls[c].prompt = Spoken
    /\ calls[c].at = "draft" => LastIsUser
    /\ calls[c].at \in {"last", "before", "reset", "max", "tx", "upto"} =>
          calls[c].row \in Visible
    /\ calls[c].at \in {"last", "before"} /\ calls[c].op = "continue" =>
          rows[calls[c].row].content # <<>>
    /\ calls[c].at \in {"before", "reset", "upto"} => AllUpTo(calls[c].row)
    /\ calls[c].at = "reset" => calls[c].prompt = {i \in Spoken : i < calls[c].row}
    /\ calls[c].at = "tx" => AllUpTo(calls[c].max)

Shape == Alternates /\ \A c \in Call : CallAsRead(c)

LEMMA SameSets ==
    ASSUME rows' = rows
    PROVE  /\ Visible' = Visible /\ Spoken' = Spoken
           /\ \A n : AllUpTo(n) => AllUpTo(n)'
           /\ LastIsUser => LastIsUser'
           /\ Alternates => Alternates'
BY DEF Visible, Spoken, AllUpTo, LastIsUser, Alternates

\* The sets after a write, from what it does to each row.
LEMMA NewRow ==
    ASSUME Base, Base', NEW c \in Call, SendUser(c) \/ Draft(c)
    PROVE  /\ Len(rows) + 1 \in Nat /\ \A j \in Visible : j \in DOMAIN rows /\ j < Len(rows) + 1
           /\ \A j \in DOMAIN rows : rows'[j] = rows[j]
           /\ Visible' = Visible \cup {Len(rows) + 1}
           /\ SendUser(c) => Spoken' = Spoken \cup {Len(rows) + 1}
                             /\ rows'[Len(rows) + 1].role = "user"
           /\ Draft(c) => Spoken' = Spoken /\ rows'[Len(rows) + 1].role = "assistant"
<1> DEFINE n == Len(rows) + 1
<1>1. /\ Len(rows) \in Nat /\ DOMAIN rows = 1 .. Len(rows) /\ DOMAIN rows' = 1 .. Len(rows')
  BY DEF Base, Typed
<1>2. /\ Len(rows') = n /\ \A j \in DOMAIN rows : rows'[j] = rows[j]
      /\ ~rows'[n].gone
      /\ SendUser(c) => rows'[n].role = "user"
      /\ Draft(c) => rows'[n].role = "assistant" /\ rows'[n].content = <<>>
  BY CreateRow
<1>3. DOMAIN rows' = DOMAIN rows \cup {n} /\ n \notin DOMAIN rows
  BY <1>1, <1>2
<1>4. Visible' = Visible \cup {n}
  BY <1>2, <1>3 DEF Visible
<1>5. SendUser(c) => Spoken' = Spoken \cup {n}
  BY <1>2, <1>3, <1>4 DEF Spoken, Visible
<1>6. Draft(c) => Spoken' = Spoken
  BY <1>2, <1>3, <1>4 DEF Spoken, Visible
<1>7. \A j \in Visible : j \in DOMAIN rows /\ j < n
  BY <1>1 DEF Visible
<1> QED
  BY <1>1, <1>2, <1>4, <1>5, <1>6, <1>7

LEMMA SendUserShape ==
    ASSUME Base, Base', NEW c \in Call, Alternates, CallAsRead(c), SendUser(c)
    PROVE  Alternates' /\ CallAsRead(c)'
<1> PICK n : n = Len(rows) + 1
  OBVIOUS
<1>1. /\ n \in Nat /\ \A j \in Visible : j \in DOMAIN rows /\ j < n
      /\ \A j \in DOMAIN rows : rows'[j] = rows[j]
      /\ Visible' = Visible \cup {n} /\ Spoken' = Spoken \cup {n} /\ rows'[n].role = "user"
  BY NewRow
<1>2. calls[c].at = "user" /\ calls'[c].at = "draft" /\ calls'[c].prompt = calls[c].prompt \cup {n}
  BY DEF SendUser, Base, Typed, CallRec
<1>3. LastIsUser'
  <2>1. n \in Visible' /\ \A k \in Visible' : k <= n
    BY <1>1, DOMAIN rows = 1 .. Len(rows) DEF Base, Typed
  <2> QED
    BY <1>1, <2>1 DEF LastIsUser, AllUpTo
<1>4. ASSUME NEW i \in Visible', rows'[i].role = "assistant"
      PROVE  \E j \in Visible' : /\ j < i /\ rows'[j].role = "user"
                                 /\ \A k \in Visible' : k < i => k <= j
  <2>1. i \in Visible /\ rows[i].role = "assistant"
    BY <1>1, <1>4
  <2>2. PICK j \in Visible : j < i /\ rows[j].role = "user" /\ \A k \in Visible : k < i => k <= j
    BY <2>1 DEF Alternates
  <2>3. ~(n < i)
    BY <1>1, <2>1, i \in Nat DEF Visible, Base, Typed
  <2> QED
    BY <1>1, <2>2, <2>3
<1>6. Alternates'
  BY <1>4 DEF Alternates
<1> QED
  BY <1>1, <1>2, <1>3, <1>6 DEF CallAsRead

LEMMA DraftShape ==
    ASSUME Base, Base', NEW c \in Call, Alternates, CallAsRead(c), Draft(c)
    PROVE  Alternates' /\ CallAsRead(c)'
<1> PICK n : n = Len(rows) + 1
  OBVIOUS
<1>1. /\ n \in Nat /\ \A j \in Visible : j \in DOMAIN rows /\ j < n
      /\ \A j \in DOMAIN rows : rows'[j] = rows[j]
      /\ Visible' = Visible \cup {n} /\ Spoken' = Spoken /\ rows'[n].role = "assistant"
  BY NewRow
<1>2. calls[c].at = "draft" /\ calls'[c].at = "stream" /\ calls'[c].prompt = calls[c].prompt
  BY DEF Draft, Base, Typed, CallRec
<1>3. PICK u \in Visible : rows[u].role = "user" /\ \A k \in Visible : k <= u
  BY <1>2 DEF CallAsRead, LastIsUser, AllUpTo
<1>4. ASSUME NEW i \in Visible', rows'[i].role = "assistant"
      PROVE  \E j \in Visible' : /\ j < i /\ rows'[j].role = "user"
                                 /\ \A k \in Visible' : k < i => k <= j
  <2>1. CASE i = n
    BY <1>1, <1>3, <2>1
  <2>2. CASE i # n
    <3>1. i \in Visible /\ rows[i].role = "assistant"
      BY <1>1, <1>4, <2>2
    <3>2. PICK j \in Visible : j < i /\ rows[j].role = "user" /\ \A k \in Visible : k < i => k <= j
      BY <3>1 DEF Alternates
    <3>3. ~(n < i)
      <4>1. i \in Nat
        BY <3>1 DEF Visible, Base, Typed
      <4> QED
        BY <1>1, <3>1, <4>1
    <3> QED
      BY <1>1, <3>2, <3>3
  <2> QED
    BY <2>1, <2>2
<1>5. Alternates'
  BY <1>4 DEF Alternates
<1> QED
  BY <1>1, <1>2, <1>5 DEF CallAsRead

LEMMA ReadShape ==
    ASSUME Base, Base', NEW c \in Call, Alternates,
           \/ SendRead(c)
           \/ \E op \in {"regenerate", "continue"}, i \in DOMAIN rows : AnswerRead(c, op, i)
           \/ \E i \in DOMAIN rows : EditRead(c, i)
    PROVE  Alternates' /\ CallAsRead(c)'
<1>1. CASE SendRead(c)
  <2>1. rows' = rows /\ calls'[c].at = "user" /\ calls'[c].prompt = Spoken
    BY <1>1 DEF SendRead, Begin, Base, Typed, Idle
  <2> QED
    BY <2>1, SameSets DEF CallAsRead
<1>2. ASSUME NEW op \in {"regenerate", "continue"}, NEW i \in DOMAIN rows, AnswerRead(c, op, i)
      PROVE  Alternates' /\ CallAsRead(c)'
  <2>1. /\ rows' = rows /\ calls'[c].at = "last" /\ calls'[c].row = i /\ calls'[c].op = op
        /\ i \in Visible /\ (op = "continue" => rows[i].content # <<>>)
    BY <1>2 DEF AnswerRead, Begin, Base, Typed, Idle
  <2> QED
    BY <2>1, SameSets DEF CallAsRead
<1>3. ASSUME NEW i \in DOMAIN rows, EditRead(c, i)
      PROVE  Alternates' /\ CallAsRead(c)'
  <2>1. rows' = rows /\ calls'[c].at = "max" /\ calls'[c].row = i /\ i \in Visible
    BY <1>3 DEF EditRead, Begin, Base, Typed, Idle
  <2> QED
    BY <2>1, SameSets DEF CallAsRead
<1> QED
  BY <1>1, <1>2, <1>3

\* A call that has ended, or has only its record to write.
LEMMA OverShape ==
    ASSUME NEW c \in Call, calls'[c].at \in {"idle", "record"}
    PROVE  CallAsRead(c)'
BY DEF CallAsRead

LEMMA AskTells ==
    ASSUME Typed, NEW c \in Call, NEW at, NEW p,
           calls' = [calls EXCEPT ![c].at = at, ![c].prompt = p]
    PROVE  calls'[c].at = at /\ calls'[c].prompt = p /\ calls'[c].row = calls[c].row
<1> DEFINE w == [calls[c] EXCEPT !.at = at, !.prompt = p]
<1>1. calls' = [calls EXCEPT ![c] = w]
  OBVIOUS
<1>2. w.at = at /\ w.prompt = p /\ w.row = calls[c].row
  BY DEF Typed, CallRec
<1> HIDE DEF w
<1> QED
  BY <1>1, <1>2 DEF Typed

LEMMA LookShape ==
    ASSUME Base, Base', NEW c \in Call, Alternates, CallAsRead(c),
           \/ CheckLast(c) \/ ListBefore(c) \/ EditList(c)
           \/ \E i \in 0 .. Len(rows) : EditMax(c, i)
    PROVE  Alternates' /\ CallAsRead(c)'
<1>0. Visible \subseteq DOMAIN rows /\ DOMAIN rows = 1 .. Len(rows) /\ Len(rows) \in Nat
      /\ Spoken \subseteq Visible
  BY DEF Visible, Spoken, Base, Typed
<1>1. CASE CheckLast(c)
  <2>1. rows' = rows /\ calls[c].at = "last"
    BY <1>1 DEF CheckLast
  <2>2. CASE IsMaxMessageID(calls[c].row)
    <3>1. /\ calls'[c].at = "before" /\ calls'[c].row = calls[c].row /\ calls'[c].op = calls[c].op
      BY <1>1, <2>2 DEF CheckLast, Go, Base, Typed, CallRec
    <3>2. AllUpTo(calls[c].row)
      BY <2>2 DEF IsMaxMessageID, AllUpTo
    <3> QED
      BY <2>1, <3>1, <3>2, SameSets DEF CallAsRead
  <2>3. CASE ~IsMaxMessageID(calls[c].row)
    <3>1. calls'[c].at = "idle"
      BY <1>1, <2>3 DEF CheckLast, Done, Idle, Base, Typed
    <3> QED
      BY <2>1, <3>1, OverShape, SameSets
  <2> QED
    BY <2>2, <2>3
<1>2. CASE ListBefore(c)
  <2> DEFINE prefix == {i \in Spoken : i < calls[c].row}
  <2>1. rows' = rows /\ calls[c].at = "before"
    BY <1>2 DEF ListBefore
  <2>2. calls[c].row \in Visible /\ AllUpTo(calls[c].row)
    BY <2>1 DEF CallAsRead
  <2>3. CASE calls[c].op = "continue"
    <3> PICK p : p = prefix \cup {calls[c].row}
      OBVIOUS
    <3>0. calls' = [calls EXCEPT ![c].at = "stream", ![c].prompt = p]
      BY <1>2, <2>3 DEF ListBefore
    <3>1. calls'[c].at = "stream" /\ calls'[c].prompt = p
      BY <3>0, AskTells DEF Base
    <3>2. calls[c].row \in Spoken
      BY <2>1, <2>2, <2>3 DEF CallAsRead, Spoken
    <3>3. prefix \cup {calls[c].row} = Spoken
      BY <1>0, <2>2, <3>2 DEF AllUpTo
    <3> QED
      BY <2>1, <3>1, <3>3, SameSets DEF CallAsRead
  <2>4. CASE calls[c].op # "continue"
    <3> PICK p : p = prefix
      OBVIOUS
    <3>0. calls' = [calls EXCEPT ![c].at = "reset", ![c].prompt = p]
      BY <1>2, <2>4 DEF ListBefore
    <3>1. calls'[c].at = "reset" /\ calls'[c].prompt = p /\ calls'[c].row = calls[c].row
      BY <3>0, AskTells DEF Base
    <3> QED
      BY <2>1, <2>2, <3>1, SameSets DEF CallAsRead
  <2> QED
    BY <2>3, <2>4
<1>3. CASE EditList(c)
  <2> PICK p : p = {i \in Spoken : i <= calls[c].row}
    OBVIOUS
  <2>0. /\ rows' = rows /\ calls[c].at = "upto"
        /\ calls' = [calls EXCEPT ![c].at = "draft", ![c].prompt = p]
    BY <1>3 DEF EditList
  <2>1. calls'[c].at = "draft" /\ calls'[c].prompt = p
    BY <2>0, AskTells DEF Base
  <2>2. calls[c].row \in Visible /\ AllUpTo(calls[c].row) /\ rows[calls[c].row].role = "user"
    BY <2>0 DEF CallAsRead, Base, Pointed, CallPointed, EditsUser
  <2>3. p = Spoken
    BY <1>0, <2>2 DEF AllUpTo
  <2>4. LastIsUser
    BY <2>2 DEF LastIsUser
  <2> QED
    BY <2>0, <2>1, <2>3, <2>4, SameSets DEF CallAsRead
<1>4. ASSUME NEW i \in 0 .. Len(rows), EditMax(c, i)
      PROVE  Alternates' /\ CallAsRead(c)'
  <2>1. /\ rows' = rows /\ calls[c].at = "max" /\ calls'[c].at = "tx"
        /\ calls'[c].row = calls[c].row /\ calls'[c].max = i
    BY <1>4 DEF EditMax, Base, Typed, CallRec
  <2>2. AllUpTo(i)
    BY <1>4 DEF EditMax, IsMaxMessageID, AllUpTo
  <2> QED
    BY <2>1, <2>2, SameSets DEF CallAsRead
<1> QED
  BY <1>1, <1>2, <1>3, <1>4

\* Writes that delete no row and give none another role.
LEMMA RolesShape ==
    ASSUME Base, Base', Alternates, Len(rows') = Len(rows),
           \A j \in DOMAIN rows : /\ rows'[j].role = rows[j].role
                                  /\ rows'[j].gone = rows[j].gone
    PROVE  Visible' = Visible /\ Alternates' /\ \A n : AllUpTo(n)' <=> AllUpTo(n)
<1>1. DOMAIN rows' = DOMAIN rows
  BY DEF Base, Typed
<1>2. Visible' = Visible
  BY <1>1 DEF Visible
<1>3. \A j \in Visible : rows'[j].role = rows[j].role
  BY DEF Visible
<1>4. Alternates'
  BY <1>2, <1>3 DEF Alternates
<1> QED
  BY <1>2, <1>4 DEF AllUpTo

LEMMA ResetShape ==
    ASSUME Base, Base', NEW c \in Call, Alternates, CallAsRead(c), ResetAssistantForRegenerate(c)
    PROVE  Alternates' /\ CallAsRead(c)'
<1>1. /\ calls[c].at = "reset" /\ calls[c].row \in DOMAIN rows
      /\ Len(rows') = Len(rows)
      /\ \A j \in DOMAIN rows :
            /\ j # calls[c].row \/ rows[j].gone => rows'[j] = rows[j]
            /\ rows'[j].role = rows[j].role /\ rows'[j].gone = rows[j].gone
      /\ ~rows[calls[c].row].gone => /\ rows'[calls[c].row].content = <<>>
                                     /\ Go(c, "stream")
  BY ResetRow
<1>2. calls[c].row \in Visible /\ AllUpTo(calls[c].row)
      /\ calls[c].prompt = {i \in Spoken : i < calls[c].row}
  BY <1>1 DEF CallAsRead
<1>3. rows[calls[c].row].role = "assistant" /\ ~rows[calls[c].row].gone
  BY <1>1, <1>2 DEF Base, Pointed, CallPointed, HoldsAnswer, Visible
<1>4. calls'[c].at = "stream" /\ calls'[c].prompt = calls[c].prompt
  BY <1>1, <1>3 DEF Go, Base, Typed, CallRec
<1>5. Visible' = Visible /\ Alternates'
  BY <1>1, RolesShape
<1>6. Spoken' = Spoken \ {calls[c].row}
  <2>1. \A j \in Visible : j # calls[c].row => rows'[j] = rows[j]
    BY <1>1 DEF Visible
  <2>2. rows'[calls[c].row].content = <<>> /\ rows'[calls[c].row].role # "user"
    BY <1>1, <1>3
  <2> QED
    BY <1>5, <2>1, <2>2 DEF Spoken
<1>7. {i \in Spoken : i < calls[c].row} = Spoken \ {calls[c].row}
  <2>1. \A i \in Spoken : i \in Nat /\ i <= calls[c].row
    BY <1>2 DEF Spoken, Visible, AllUpTo, Base, Typed
  <2>2. calls[c].row \in Nat
    BY <1>2 DEF Visible, Base, Typed
  <2> QED
    BY <2>1, <2>2
<1> QED
  BY <1>2, <1>4, <1>5, <1>6, <1>7 DEF CallAsRead

LEMMA EditTxShape ==
    ASSUME Base, Base', NEW c \in Call, Alternates, CallAsRead(c), EditTx(c)
    PROVE  Alternates' /\ CallAsRead(c)'
<1> PICK r : r = calls[c].row
  OBVIOUS
<1>0. DOMAIN rows = 1 .. Len(rows) /\ Len(rows) \in Nat /\ calls[c].max \in Nat
  BY DEF Base, Typed, CallRec
<1>11. calls[c].at = "tx"
  BY DEF EditTx
<1>1. /\ Len(rows') = Len(rows) /\ Go(c, "upto")
      /\ \A j \in DOMAIN rows :
            /\ rows'[j].role = rows[j].role
            /\ rows'[j].gone = (rows[j].gone \/ (r < j /\ j <= calls[c].max))
  BY EditTxEffect DEF Base
<1>2. calls'[c].at = "upto" /\ calls'[c].row = r
  BY <1>1 DEF Go, Base, Typed, CallRec
<1>3. r \in Visible /\ \A k \in Visible : k <= calls[c].max
  BY <1>11 DEF CallAsRead, AllUpTo
<1>4. r \in Nat /\ \A k \in Visible : k \in DOMAIN rows /\ k \in Nat
  BY <1>0, <1>3 DEF Visible
<1>5. DOMAIN rows' = DOMAIN rows
  BY <1>1 DEF Base, Typed
<1>6. Visible' = {j \in Visible : j <= r}
  <2>1. \A j \in DOMAIN rows : ~rows'[j].gone <=> ~rows[j].gone /\ ~(r < j /\ j <= calls[c].max)
    BY <1>1, Zenon
  <2>2. Visible' = {j \in DOMAIN rows : ~rows'[j].gone}
    BY <1>5 DEF Visible
  <2>3. \A j \in DOMAIN rows : j \in Visible <=> ~rows[j].gone
    BY DEF Visible
  <2>4. \A j \in Visible : ~(r < j /\ j <= calls[c].max) <=> j <= r
    BY <1>3, <1>4
  <2> QED
    BY <1>4, <2>1, <2>2, <2>3, <2>4
<1>7. \A j \in Visible : rows'[j].role = rows[j].role
  BY <1>1, <1>4
<1>8. ASSUME NEW i \in Visible', rows'[i].role = "assistant"
      PROVE  \E j \in Visible' : /\ j < i /\ rows'[j].role = "user"
                                 /\ \A k \in Visible' : k < i => k <= j
  <2>1. i \in Visible /\ i <= r /\ rows[i].role = "assistant"
    BY <1>6, <1>7, <1>8
  <2>2. PICK j \in Visible : j < i /\ rows[j].role = "user" /\ \A k \in Visible : k < i => k <= j
    BY <2>1 DEF Alternates
  <2>3. j <= r
    BY <1>4, <2>1, <2>2
  <2> QED
    BY <1>6, <1>7, <2>2, <2>3
<1>9. Alternates'
  BY <1>8 DEF Alternates
<1>10. r \in Visible' /\ AllUpTo(r)'
  BY <1>3, <1>4, <1>6 DEF AllUpTo
<1> QED
  BY <1>2, <1>9, <1>10 DEF CallAsRead

LEMMA EndShape ==
    ASSUME Base, Base', NEW c \in Call, Alternates, Answers(c) \/ Fail(c)
    PROVE  Alternates' /\ CallAsRead(c)'
<1>0. calls[c] \in CallRec /\ c \in DOMAIN calls
  BY DEF Base, Typed
<1>1. ASSUME NEW text \in {<<>>, <<calls[c].n>>}, Finish(c, text)
      PROVE  Alternates' /\ CallAsRead(c)'
  <2>1. /\ Len(rows') = Len(rows)
        /\ \A j \in DOMAIN rows : /\ rows'[j].role = rows[j].role
                                  /\ rows'[j].gone = rows[j].gone
    BY <1>1, FinishRow
  <2>2. calls'[c].at \in {"idle", "record"}
    BY <1>0, <1>1 DEF Finish, Ended, Go, Done, Idle, CallRec
  <2> QED
    BY <2>1, <2>2, RolesShape, OverShape
<1>2. ASSUME NEW text, FinishUnsaved(c, text) PROVE Alternates' /\ CallAsRead(c)'
  <2>1. rows' = rows /\ calls'[c].at \in {"idle", "record"}
    BY <1>0, <1>2 DEF FinishUnsaved, Ended, Go, Done, Idle, CallRec
  <2> QED
    BY <2>1, SameSets, OverShape
<1>3. CASE Record(c) \/ Fail(c)
  <2>1. rows' = rows /\ calls'[c].at = "idle"
    BY <1>0, <1>3 DEF Record, Fail, Done, Idle
  <2> QED
    BY <2>1, SameSets, OverShape
<1> QED
  BY <1>1, <1>2, <1>3 DEF Answers

LEMMA StepShape ==
    ASSUME Base, Base', NEW c \in Call, Shape, Step(c)
    PROVE  Alternates' /\ CallAsRead(c)'
<1>1. Alternates /\ CallAsRead(c)
  BY DEF Shape
<1> QED
  BY <1>1, SendUserShape, DraftShape, ReadShape, LookShape, ResetShape, EditTxShape, EndShape
     DEF Step

\* Whoever makes a step alone leaves the others idle.
LEMMA OthersIdle ==
    ASSUME Base, Base', NEW c \in Call, OneCall, OneCall', Step(c)
    PROVE  \A d \in Call \ {c} : calls'[d] = Idle
<1>1. CASE \/ SendRead(c)
           \/ \E op \in {"regenerate", "continue"}, i \in DOMAIN rows : AnswerRead(c, op, i)
           \/ \E i \in DOMAIN rows : EditRead(c, i)
  <2>1. calls'[c].at # "idle"
    BY <1>1 DEF SendRead, AnswerRead, EditRead, Begin, Base, Typed, Idle
  <2>2. calls'[c] # Idle
    BY <2>1 DEF Idle
  <2> QED
    BY <2>2 DEF OneCall
<1>2. ASSUME calls[c].at # "idle", \A d \in Call \ {c} : calls'[d] = calls[d]
      PROVE  \A d \in Call \ {c} : calls'[d] = Idle
  <2>1. calls[c] # Idle
    BY <1>2 DEF Idle
  <2> QED
    BY <1>2, <2>1 DEF OneCall
<1> USE DEF Base, Typed
<1>3. CASE SendUser(c) \/ Draft(c) \/ ListBefore(c) \/ EditList(c)
  BY <1>2, <1>3 DEF SendUser, Draft, ListBefore, EditList
<1>4. CASE CheckLast(c) \/ ResetAssistantForRegenerate(c) \/ EditTx(c)
  BY <1>2, <1>4 DEF CheckLast, ResetAssistantForRegenerate, EditTx, Go, Done
<1>5. ASSUME NEW i, EditMax(c, i) PROVE \A d \in Call \ {c} : calls'[d] = Idle
  BY <1>2, <1>5 DEF EditMax
<1>6. CASE Fail(c) \/ Record(c)
  BY <1>2, <1>6 DEF Fail, Record, Done
<1>7. ASSUME NEW text, Finish(c, text) \/ FinishUnsaved(c, text)
      PROVE  \A d \in Call \ {c} : calls'[d] = Idle
  BY <1>2, <1>7 DEF Finish, FinishUnsaved, Ended, Go, Done
<1> QED
  BY <1>1, <1>3, <1>4, <1>5, <1>6, <1>7 DEF Step, Answers

LEMMA IdleAsRead ==
    ASSUME NEW c \in Call, calls'[c] = Idle
    PROVE  CallAsRead(c)'
BY OverShape DEF Idle

LEMMA ShapeStep ==
    ASSUME Base, Base', OneCall, OneCall', Shape, [Next]_vars
    PROVE  Shape'
<1>1. ASSUME NEW c \in Call, Step(c) PROVE Shape'
  <2>1. Alternates' /\ CallAsRead(c)'
    BY <1>1, StepShape
  <2>2. \A d \in Call \ {c} : CallAsRead(d)'
    BY <1>1, OthersIdle, IdleAsRead
  <2> QED
    BY <2>1, <2>2 DEF Shape
<1>2. CASE Crash
  <2>1. rows' = rows /\ \A c \in Call : calls'[c] = Idle
    BY <1>2 DEF Crash
  <2> QED
    BY <2>1, SameSets, IdleAsRead DEF Shape
<1>3. CASE UNCHANGED vars
  <2>1. rows' = rows /\ calls' = calls
    BY <1>3 DEF vars
  <2> QED
    BY <2>1 DEF Shape, CallAsRead, Alternates, Visible, Spoken, AllUpTo, LastIsUser
<1> QED
  BY <1>1, <1>2, <1>3 DEF Next

\* As long as calls have come one by one.
Alone == alone => OneCall /\ Shape

LEMMA AloneInit == MCInit => Alone
BY DEF MCInit, Init, Alone, OneCall, Shape, CallAsRead, Alternates, Visible, Idle

LEMMA AloneStep == Base /\ Base' /\ Alone /\ [MCNext]_<<vars, alone>> => Alone'
<1> SUFFICES ASSUME Base, Base', Alone, [MCNext]_<<vars, alone>>, alone'
             PROVE  OneCall' /\ Shape'
  BY DEF Alone
<1>1. CASE MCNext
  <2>1. alone /\ OneCall' /\ Next
    BY <1>1 DEF MCNext, OneCall
  <2> QED
    BY <2>1, ShapeStep DEF Alone
<1>2. CASE UNCHANGED <<vars, alone>>
  <2>1. OneCall'
    BY <1>2 DEF Alone, OneCall, vars
  <2> QED
    BY <1>2, <2>1, ShapeStep DEF Alone
<1> QED
  BY <1>1, <1>2

LEMMA AloneIsSpec == MCSpec => Spec
<1>1. MCInit => Init
  BY DEF MCInit
<1>2. [MCNext]_<<vars, alone>> => [Next]_vars
  BY DEF MCNext
<1> QED
  BY <1>1, <1>2, PTL DEF MCSpec, Spec

LEMMA AloneHolds == MCSpec => []Alone
BY AloneIsSpec, BaseHolds, AloneInit, AloneStep, PTL DEF MCSpec

(* AloneAlternates: in a chat whose calls come one by one every answer comes
   right after a message of the user, whatever fails or is killed. *)
THEOREM AnswersFollow == MCSpec => []AloneAlternates
<1>1. Alone => AloneAlternates
  BY DEF Alone, Shape, AloneAlternates
<1> QED
  BY <1>1, AloneHolds, PTL

(* AlonePromptIsChat: the runner is asked about the chat as it is shown. *)
THEOREM PromptsFit == MCSpec => []AlonePromptIsChat
<1>1. Alone => AlonePromptIsChat
  BY DEF Alone, Shape, CallAsRead, AlonePromptIsChat, PromptIsChat
<1> QED
  BY <1>1, AloneHolds, PTL

-----------------------------------------------------------------------------
(* Versions of a message, one call at a time: the times of rows and records are
   in the order in which they were made, and each record of an edit says what
   lay after its message then. *)

Ordered ==
    /\ \A i \in DOMAIN rows : rows[i].at < clock
    /\ \A e \in DOMAIN edits : edits[e].at < clock
    /\ \A i, j \in DOMAIN rows : i < j => rows[i].at < rows[j].at
    /\ \A d, e \in DOMAIN edits : d < e => edits[d].at < edits[e].at

\* An edit takes its time after everything that is there when it cuts.
StampIsLast(c) ==
    calls[c].at = "tx" =>
        /\ calls[c].stamp < clock
        /\ \A i \in DOMAIN rows : rows[i].at < calls[c].stamp
        /\ \A e \in DOMAIN edits : edits[e].at < calls[c].stamp

IsEdit(e) == edits[e].kind = "user_edit"

\* It cut rows that were there, and those after its message that are not deleted
\* came later.
CutAll(e) ==
    /\ edits[e].from = edits[e].msg
    /\ \A i \in DOMAIN rows : i <= edits[e].to => rows[i].at < edits[e].at
    /\ \A i \in Visible : edits[e].from < i => edits[e].at < rows[i].at

\* Its tail are rows that were there, and came after the earlier edits of the
\* message; what else was there had been cut before.
TailIs(e) ==
    /\ \A i \in tails[e] :
          /\ i \in DOMAIN rows /\ edits[e].msg < i /\ rows[i].at < edits[e].at
          /\ \A d \in DOMAIN edits : d < e /\ IsEdit(d) /\ edits[d].msg = edits[e].msg =>
                edits[d].at < rows[i].at
    /\ \A i \in DOMAIN rows \ tails[e] :
          edits[e].msg < i /\ rows[i].at < edits[e].at =>
              \E d \in DOMAIN edits : d < e /\ edits[d].from < i /\ i <= edits[d].to

RecordIs(e) == IF IsEdit(e) THEN CutAll(e) /\ TailIs(e) ELSE edits[e].to = 0


\* A step that makes no row and no record.
NothingMade ==
    /\ Len(rows') = Len(rows) /\ edits' = edits /\ tails' = tails
    /\ clock' \in Nat /\ clock <= clock'
    /\ \A j \in DOMAIN rows : rows'[j].at = rows[j].at /\ rows'[j].gone = rows[j].gone

RowMade ==
    /\ Len(rows') = Len(rows) + 1 /\ edits' = edits /\ tails' = tails
    /\ clock' = clock + 1
    /\ \A j \in DOMAIN rows : rows'[j] = rows[j]
    /\ rows'[Len(rows) + 1].at = clock

RecordsAre == /\ tails \in Seq(SUBSET Nat) /\ Len(tails) = Len(edits)
              /\ Ordered
              /\ \A e \in DOMAIN edits : RecordIs(e)

LEMMA Numbers ==
    ASSUME Base
    PROVE  /\ DOMAIN rows = 1 .. Len(rows) /\ Len(rows) \in Nat /\ clock \in Nat
           /\ DOMAIN edits = 1 .. Len(edits) /\ Len(edits) \in Nat
           /\ \A i \in DOMAIN rows : rows[i].at \in Nat /\ rows[i].gone \in BOOLEAN
           /\ \A e \in DOMAIN edits :
                 /\ edits[e].at \in Nat /\ edits[e].msg \in Nat
                 /\ edits[e].from \in Nat /\ edits[e].to \in Nat
                 /\ edits[e].to <= Len(rows)
<1>1. /\ DOMAIN rows = 1 .. Len(rows) /\ Len(rows) \in Nat /\ clock \in Nat
      /\ DOMAIN edits = 1 .. Len(edits) /\ Len(edits) \in Nat
  BY DEF Base, Typed
<1>2. ASSUME NEW i \in DOMAIN rows PROVE rows[i].at \in Nat /\ rows[i].gone \in BOOLEAN
  <2>1. rows[i] \in RowRec
    BY <1>1 DEF Base, Typed
  <2> QED
    BY <2>1 DEF RowRec
<1>3. ASSUME NEW e \in DOMAIN edits
      PROVE  /\ edits[e].at \in Nat /\ edits[e].msg \in Nat
             /\ edits[e].from \in Nat /\ edits[e].to \in Nat
             /\ edits[e].to <= Len(rows)
  <2>1. edits[e] \in EditRec
    BY <1>1 DEF Base, Typed
  <2> QED
    BY <2>1 DEF EditRec, Base, Pointed
<1> QED
  BY <1>1, <1>2, <1>3

LEMMA NothingMadeRecords ==
    ASSUME Base, Base', RecordsAre, NothingMade
    PROVE  RecordsAre'
<1>1. /\ DOMAIN rows' = DOMAIN rows /\ edits' = edits /\ tails' = tails
      /\ \A j \in DOMAIN rows : rows'[j].at = rows[j].at /\ rows'[j].gone = rows[j].gone
  BY DEF NothingMade, Base, Typed
<1>2. Visible' = Visible
  BY <1>1 DEF Visible
<1>3. Ordered'
  BY <1>1, Numbers DEF Ordered, RecordsAre, NothingMade
<1>4. ASSUME NEW e \in DOMAIN edits PROVE RecordIs(e)'
  <2>1. RecordIs(e)
    BY DEF RecordsAre
  <2>2. CASE ~IsEdit(e)
    BY <1>1, <2>1, <2>2 DEF RecordIs, IsEdit
  <2>3. CASE IsEdit(e)
    <3>1. CutAll(e)'
      BY <1>1, <1>2, <2>1, <2>3 DEF RecordIs, CutAll, Visible
    <3>2. TailIs(e)'
      BY <1>1, <2>1, <2>3 DEF RecordIs, TailIs, IsEdit
    <3> QED
      BY <1>1, <2>3, <3>1, <3>2 DEF RecordIs, IsEdit
  <2> QED
    BY <2>2, <2>3
<1> QED
  BY <1>1, <1>3, <1>4 DEF RecordsAre

LEMMA RowMadeRecords ==
    ASSUME Base, Base', RecordsAre, RowMade
    PROVE  RecordsAre'
<1> PICK n : n = Len(rows) + 1
  OBVIOUS
<1>1. /\ DOMAIN rows' = DOMAIN rows \cup {n} /\ edits' = edits /\ tails' = tails
      /\ \A j \in DOMAIN rows : rows'[j] = rows[j] /\ j < n
      /\ rows'[n].at = clock /\ clock' = clock + 1 /\ n \in Nat /\ n \notin DOMAIN rows
  BY DEF RowMade, Base, Typed
<1>2. Visible' \subseteq Visible \cup {n}
  BY <1>1 DEF Visible
<1>3. /\ clock \in Nat
      /\ \A i \in DOMAIN rows : i \in Nat /\ rows[i].at \in Nat /\ rows[i].at < clock
      /\ \A e \in DOMAIN edits : edits[e].at \in Nat /\ edits[e].at < clock /\ edits[e].to < n
  BY Numbers DEF Ordered, RecordsAre
<1>4. Ordered'
  <2>1. \A i \in DOMAIN rows' : rows'[i].at < clock'
    BY <1>1, <1>3
  <2>2. \A e \in DOMAIN edits' : edits'[e].at < clock'
    BY <1>1, <1>3
  <2>3. ASSUME NEW i \in DOMAIN rows', NEW j \in DOMAIN rows', i < j
        PROVE  rows'[i].at < rows'[j].at
    <3>1. i \in DOMAIN rows
      BY <1>1, <1>3, <2>3
    <3>2. CASE j = n
      BY <1>1, <1>3, <3>1, <3>2
    <3>3. CASE j # n
      BY <1>1, <2>3, <3>1, <3>3 DEF RecordsAre, Ordered
    <3> QED
      BY <3>2, <3>3
  <2>4. \A d, e \in DOMAIN edits' : d < e => edits'[d].at < edits'[e].at
    BY <1>1 DEF RecordsAre, Ordered
  <2> QED
    BY <2>1, <2>2, <2>3, <2>4 DEF Ordered
<1>5. ASSUME NEW e \in DOMAIN edits PROVE RecordIs(e)'
  <2>1. RecordIs(e) /\ edits'[e] = edits[e] /\ tails'[e] = tails[e]
    BY <1>1 DEF RecordsAre
  <2>2. CASE ~IsEdit(e)
    BY <2>1, <2>2 DEF RecordIs, IsEdit
  <2>3. CASE IsEdit(e)
    <3>0. CutAll(e) /\ TailIs(e)
      BY <2>1, <2>3 DEF RecordIs
    <3>1. CutAll(e)'
      <4>1. ASSUME NEW i \in DOMAIN rows', i <= edits[e].to PROVE rows'[i].at < edits[e].at
        <5>1. i # n
          BY <1>1, <1>3, <4>1, Numbers
        <5> QED
          BY <1>1, <3>0, <4>1, <5>1 DEF CutAll
      <4>2. ASSUME NEW i \in Visible', edits[e].from < i PROVE edits[e].at < rows'[i].at
        <5>1. CASE i = n
          BY <1>1, <1>3, <5>1
        <5>2. CASE i # n
          <6>1. i \in Visible /\ i \in DOMAIN rows
            BY <1>2, <5>2 DEF Visible
          <6> QED
            BY <1>1, <3>0, <4>2, <6>1 DEF CutAll
        <5> QED
          BY <5>1, <5>2
      <4> QED
        BY <2>1, <3>0, <4>1, <4>2 DEF CutAll
    <3>2. TailIs(e)'
      <4>1. ASSUME NEW i \in tails[e]
            PROVE  /\ i \in DOMAIN rows' /\ edits'[e].msg < i /\ rows'[i].at < edits'[e].at
                   /\ \A d \in DOMAIN edits' :
                         d < e /\ IsEdit(d)' /\ edits'[d].msg = edits'[e].msg =>
                            edits'[d].at < rows'[i].at
        BY <1>1, <3>0 DEF TailIs, IsEdit
      <4>2. ASSUME NEW i \in DOMAIN rows' \ tails[e],
                   edits'[e].msg < i, rows'[i].at < edits'[e].at
            PROVE  \E d \in DOMAIN edits' : d < e /\ edits'[d].from < i /\ i <= edits'[d].to
        <5>1. i \in DOMAIN rows
          BY <1>1, <1>3, <4>2
        <5> QED
          BY <1>1, <3>0, <4>2, <5>1 DEF TailIs
      <4> QED
        BY <2>1, <4>1, <4>2 DEF TailIs
    <3> QED
      BY <2>1, <2>3, <3>1, <3>2 DEF RecordIs, IsEdit
  <2> QED
    BY <2>2, <2>3
<1> QED
  BY <1>1, <1>4, <1>5 DEF RecordsAre

\* A record that is added leaves the earlier ones as they were.
LEMMA MoreTails ==
    ASSUME Base, RecordsAre, NEW e \in EditRec, NEW S \in SUBSET Nat,
           edits' = Append(edits, e), tails' = Append(tails, S)
    PROVE  /\ DOMAIN edits' = DOMAIN edits \cup {Len(edits) + 1}
           /\ Len(edits) + 1 \notin DOMAIN edits /\ Len(edits) + 1 \in Nat
           /\ \A k \in DOMAIN edits : /\ k < Len(edits) + 1
                                      /\ edits'[k] = edits[k] /\ tails'[k] = tails[k]
           /\ edits'[Len(edits) + 1] = e /\ tails'[Len(edits) + 1] = S
           /\ tails' \in Seq(SUBSET Nat) /\ Len(tails') = Len(edits')
<1>1. /\ Len(edits') = Len(edits) + 1 /\ edits' \in Seq(EditRec)
      /\ \A k \in 1 .. Len(edits) : edits'[k] = edits[k]
      /\ edits'[Len(edits) + 1] = e
  BY AppendEdit DEF Base
<1>2. tails \in Seq(SUBSET Nat) /\ Len(tails) = Len(edits)
  BY DEF RecordsAre
<1>3. /\ tails' \in Seq(SUBSET Nat) /\ Len(tails') = Len(tails) + 1
      /\ \A k \in 1 .. Len(tails) : tails'[k] = tails[k]
      /\ tails'[Len(tails) + 1] = S
  BY ONLY <1>2, S \in SUBSET Nat, tails' = Append(tails, S), AppendProperties
<1> QED
  BY <1>1, <1>2, <1>3 DEF Base, Typed

\* The records that are there, when rows keep their times and none appears again.
LEMMA OldRecords ==
    ASSUME Base, Base', RecordsAre, NEW e \in EditRec, NEW S \in SUBSET Nat,
           edits' = Append(edits, e), tails' = Append(tails, S),
           Len(rows') = Len(rows), Visible' \subseteq Visible,
           \A j \in DOMAIN rows : rows'[j].at = rows[j].at,
           NEW k \in DOMAIN edits
    PROVE  RecordIs(k)'
<1>1. /\ DOMAIN rows' = DOMAIN rows /\ DOMAIN edits \subseteq DOMAIN edits'
      /\ edits'[k] = edits[k] /\ tails'[k] = tails[k]
  BY MoreTails DEF Base, Typed
<1>2. RecordIs(k)
  BY DEF RecordsAre
<1>3. CASE ~IsEdit(k)
  BY <1>1, <1>2, <1>3 DEF RecordIs, IsEdit
<1>4. CASE IsEdit(k)
  <2>1. CutAll(k) /\ TailIs(k)
    BY <1>2, <1>4 DEF RecordIs
  <2>2. CutAll(k)'
    BY <1>1, <2>1 DEF CutAll, Visible
  <2>3. ASSUME NEW i \in tails[k]
        PROVE  /\ i \in DOMAIN rows' /\ edits'[k].msg < i /\ rows'[i].at < edits'[k].at
               /\ \A d \in DOMAIN edits' :
                     d < k /\ IsEdit(d)' /\ edits'[d].msg = edits'[k].msg =>
                        edits'[d].at < rows'[i].at
    <3>1. ASSUME NEW d \in DOMAIN edits', d < k PROVE d \in DOMAIN edits /\ edits'[d] = edits[d]
      BY <3>1, MoreTails, Numbers
    <3> QED
      BY <1>1, <2>1, <3>1 DEF TailIs, IsEdit
  <2>4. ASSUME NEW i \in DOMAIN rows' \ tails[k],
               edits'[k].msg < i, rows'[i].at < edits'[k].at
        PROVE  \E d \in DOMAIN edits' : d < k /\ edits'[d].from < i /\ i <= edits'[d].to
    <3>1. PICK d \in DOMAIN edits : d < k /\ edits[d].from < i /\ i <= edits[d].to
      BY <1>1, <2>1, <2>4 DEF TailIs
    <3>2. d \in DOMAIN edits' /\ edits'[d] = edits[d]
      BY MoreTails
    <3> QED
      BY <3>1, <3>2
  <2>5. TailIs(k)'
    BY <1>1, <2>3, <2>4 DEF TailIs
  <2> QED
    BY <1>1, <1>4, <2>2, <2>5 DEF RecordIs, IsEdit
<1> QED
  BY <1>3, <1>4

LEMMA MoreOrdered ==
    ASSUME Base, Base', RecordsAre, NEW e \in EditRec, NEW S \in SUBSET Nat,
           edits' = Append(edits, e), tails' = Append(tails, S),
           Len(rows') = Len(rows), clock <= clock', clock' \in Nat,
           \A j \in DOMAIN rows : rows'[j].at = rows[j].at,
           e.at < clock', \A k \in DOMAIN edits : edits[k].at < e.at
    PROVE  Ordered'
<1>1. /\ DOMAIN rows' = DOMAIN rows /\ e.at \in Nat
      /\ \A i \in DOMAIN rows : rows[i].at \in Nat /\ rows[i].at < clock
      /\ \A k \in DOMAIN edits : k \in Nat /\ edits[k].at \in Nat /\ edits[k].at < clock
      /\ clock \in Nat
  <2>1. DOMAIN rows' = DOMAIN rows /\ e.at \in Nat
    BY DEF Base, Typed, EditRec
  <2> QED
    BY <2>1, Numbers DEF RecordsAre, Ordered
<1> PICK n : n = Len(edits) + 1
  OBVIOUS
<1>2. /\ DOMAIN edits' = DOMAIN edits \cup {n} /\ n \in Nat /\ edits'[n] = e
      /\ \A k \in DOMAIN edits : k < n /\ edits'[k] = edits[k]
  BY MoreTails
<1>3. \A i \in DOMAIN rows' : rows'[i].at < clock'
  BY <1>1
<1>4. \A k \in DOMAIN edits' : edits'[k].at < clock'
  BY <1>1, <1>2
<1>5. \A i, j \in DOMAIN rows' : i < j => rows'[i].at < rows'[j].at
  BY <1>1 DEF RecordsAre, Ordered
<1>6. ASSUME NEW d \in DOMAIN edits', NEW k \in DOMAIN edits', d < k
      PROVE  edits'[d].at < edits'[k].at
  <2>1. d \in DOMAIN edits
    BY <1>1, <1>2, <1>6
  <2>2. CASE k = n
    BY <1>2, <2>1, <2>2
  <2>3. CASE k # n
    BY <1>2, <1>6, <2>1, <2>3 DEF RecordsAre, Ordered
  <2> QED
    BY <2>2, <2>3
<1> QED
  BY <1>3, <1>4, <1>5, <1>6 DEF Ordered

LEMMA RecordRecords ==
    ASSUME Base, Base', RecordsAre, NEW c \in Call, Record(c)
    PROVE  RecordsAre'
<1> DEFINE r == [kind |-> "assistant_regen", msg |-> calls[c].row,
                 old |-> calls[c].old, new |-> <<calls[c].n>>,
                 from |-> 0, to |-> 0, at |-> clock]
<1>1. /\ calls[c].row \in Nat /\ calls[c].old \in Seq(Nat) /\ calls[c].n \in Nat
      /\ clock \in Nat
  BY DEF Base, Typed, CallRec
<1>2. r \in EditRec
  BY <1>1, TextSeq DEF EditRec
<1>3. PICK e \in EditRec : e = r
  BY <1>2
<1>4. /\ edits' = Append(edits, e) /\ tails' = Append(tails, {}) /\ {} \in SUBSET Nat
      /\ rows' = rows /\ clock' = clock + 1
  BY <1>3 DEF Record
<1>5. e.kind # "user_edit" /\ e.to = 0 /\ e.at = clock
  BY <1>3
<1> HIDE DEF r
<1>6. Visible' = Visible /\ \A k \in DOMAIN edits : edits[k].at < clock
  BY <1>4 DEF Visible, RecordsAre, Ordered
<1>7. Ordered'
  <2>1. /\ Len(rows') = Len(rows) /\ clock <= clock' /\ clock' \in Nat /\ e.at < clock'
        /\ \A j \in DOMAIN rows : rows'[j].at = rows[j].at
        /\ \A k \in DOMAIN edits : edits[k].at < e.at
    BY <1>1, <1>4, <1>5, <1>6
  <2> QED
    BY <1>4, <2>1, MoreOrdered
<1>8. \A k \in DOMAIN edits : RecordIs(k)'
  BY <1>4, <1>6, OldRecords
<1> PICK n : n = Len(edits) + 1
  OBVIOUS
<1>9. /\ DOMAIN edits' = DOMAIN edits \cup {n}
      /\ edits'[n] = e
      /\ tails' \in Seq(SUBSET Nat) /\ Len(tails') = Len(edits')
  BY <1>4, MoreTails
<1>10. RecordIs(n)'
  BY <1>5, <1>9 DEF RecordIs, IsEdit
<1> QED
  BY <1>7, <1>8, <1>9, <1>10 DEF RecordsAre

LEMMA EditTxRecords ==
    ASSUME Base, Base', RecordsAre, DeletedIsRecorded, NEW c \in Call,
           CallAsRead(c), StampIsLast(c), EditTx(c)
    PROVE  RecordsAre'
<1> PICK r : r = calls[c].row
  OBVIOUS
<1> DEFINE rec == [kind |-> "user_edit", msg |-> r, old |-> calls[c].old,
                   new |-> <<calls[c].n>>, from |-> r, to |-> calls[c].max,
                   at |-> calls[c].stamp]
<1>1. /\ r \in Nat /\ calls[c].old \in Seq(Nat) /\ calls[c].n \in Nat
      /\ calls[c].max \in Nat /\ calls[c].stamp \in Nat /\ clock \in Nat
  BY DEF Base, Typed, CallRec
<1>2. rec \in EditRec
  BY <1>1, TextSeq DEF EditRec
<1>3. PICK e \in EditRec : e = rec
  BY <1>2
<1>4. PICK S : S = {i \in Visible : i > r}
  OBVIOUS
<1>5. edits' = Append(edits, e) /\ tails' = Append(tails, S) /\ calls[c].at = "tx"
  BY <1>3, <1>4 DEF EditTx
<1>6. /\ e.kind = "user_edit" /\ e.msg = r /\ e.from = r /\ e.to = calls[c].max
      /\ e.at = calls[c].stamp
  BY <1>3
<1> HIDE DEF rec
<1>7. /\ r \in Visible /\ \A k \in Visible : k <= calls[c].max
      /\ calls[c].stamp < clock
      /\ \A i \in DOMAIN rows : rows[i].at < calls[c].stamp
      /\ \A k \in DOMAIN edits : edits[k].at < calls[c].stamp
  BY <1>5 DEF CallAsRead, AllUpTo, StampIsLast
<1>8. S \in SUBSET Nat
  BY <1>4 DEF Visible, Base, Typed
<1>9. /\ Len(rows') = Len(rows) /\ clock' = clock
      /\ \A j \in DOMAIN rows :
            rows'[j].gone = (rows[j].gone \/ (r < j /\ j <= calls[c].max))
  BY EditTxEffect DEF Base
<1>10. ASSUME NEW j \in DOMAIN rows PROVE rows'[j].at = rows[j].at
  <2> DEFINE new(i) ==
        [rows[i] EXCEPT !.content = IF i = calls[c].row /\ ~rows[i].gone
                                    THEN <<calls[c].n>> ELSE rows[i].content,
                        !.gone = rows[i].gone \/ i \in Cut(calls[c].row, calls[c].max)]
  <2>1. rows' = [i \in DOMAIN rows |-> new(i)]
    BY DEF EditTx
  <2>2. rows[j] \in RowRec
    BY DEF Base, Typed
  <2>3. new(j).at = rows[j].at
    BY <2>2 DEF RowRec
  <2> HIDE DEF new
  <2> QED
    BY <2>1, <2>3
<1>11. DOMAIN rows' = DOMAIN rows
  BY <1>9 DEF Base, Typed
<1>12. \A j \in Visible' : j \in Visible /\ ~(r < j)
  BY <1>7, <1>9, <1>11 DEF Visible
<1>13. Ordered'
  BY <1>1, <1>5, <1>6, <1>7, <1>8, <1>9, <1>10, MoreOrdered
<1>14. \A k \in DOMAIN edits : RecordIs(k)'
  BY <1>5, <1>8, <1>9, <1>10, <1>12, OldRecords
<1> PICK n : n = Len(edits) + 1
  OBVIOUS
<1>15. /\ DOMAIN edits' = DOMAIN edits \cup {n} /\ edits'[n] = e /\ tails'[n] = S
       /\ \A k \in DOMAIN edits : k < n /\ edits'[k] = edits[k]
       /\ tails' \in Seq(SUBSET Nat) /\ Len(tails') = Len(edits')
       /\ \A k \in DOMAIN edits' : k < n => k \in DOMAIN edits
  BY <1>5, <1>8, MoreTails, Numbers
<1>16. CutAll(n)'
  BY <1>6, <1>7, <1>10, <1>11, <1>12, <1>15 DEF CutAll
<1>17. ASSUME NEW i \in S
       PROVE  /\ i \in DOMAIN rows' /\ r < i /\ rows'[i].at < e.at
              /\ \A d \in DOMAIN edits' : d < n /\ IsEdit(d)' /\ edits'[d].msg = r =>
                    edits'[d].at < rows'[i].at
  <2>1. i \in Visible /\ i \in DOMAIN rows /\ r < i /\ i \in Nat
    BY <1>1, <1>4, <1>8 DEF Visible
  <2>2. ASSUME NEW d \in DOMAIN edits, IsEdit(d), edits[d].msg = r
        PROVE  edits[d].at < rows[i].at
    BY <2>1, <2>2 DEF RecordsAre, RecordIs, CutAll
  <2> QED
    BY <1>6, <1>7, <1>10, <1>11, <1>15, <2>1, <2>2 DEF IsEdit
<1>18. ASSUME NEW i \in DOMAIN rows' \ S, r < i
       PROVE  \E d \in DOMAIN edits' : d < n /\ edits'[d].from < i /\ i <= edits'[d].to
  <2>1. i \in DOMAIN rows /\ rows[i].gone
    BY <1>4, <1>11, <1>18 DEF Visible
  <2>2. PICK d \in DOMAIN edits : edits[d].from < i /\ i <= edits[d].to
    BY <2>1 DEF DeletedIsRecorded
  <2> QED
    BY <1>15, <2>2
<1>19. TailIs(n)'
  BY <1>6, <1>15, <1>17, <1>18 DEF TailIs
<1>20. RecordIs(n)'
  BY <1>6, <1>15, <1>16, <1>19 DEF RecordIs, IsEdit
<1> QED
  BY <1>13, <1>14, <1>15, <1>20 DEF RecordsAre

\* What each other step makes.
LEMMA QuietMakes ==
    ASSUME Base, rows' = rows, edits' = edits, tails' = tails,
           clock' = clock \/ clock' = clock + 1
    PROVE  NothingMade
BY Numbers DEF NothingMade

\* Whatever writes a content leaves the times.
LEMMA ContentOnly ==
    ASSUME Base, NEW i \in DOMAIN rows, NEW content,
           rows' = [rows EXCEPT ![i].content = content]
    PROVE  /\ Len(rows') = Len(rows)
           /\ \A j \in DOMAIN rows : rows'[j].at = rows[j].at /\ rows'[j].gone = rows[j].gone
<1>1. rows \in Seq(RowRec)
  BY DEF Base, Typed
<1>2. PICK w : w = [rows[i] EXCEPT !.content = content]
  OBVIOUS
<1>3. rows[i] \in RowRec
  BY <1>1
<1>4. w.at = rows[i].at /\ w.gone = rows[i].gone
  BY <1>2, <1>3 DEF RowRec
<1>5. rows' = [rows EXCEPT ![i] = w]
  BY <1>2
<1>6. Len(rows') = Len(rows) /\ \A j \in DOMAIN rows : rows'[j] = IF j = i THEN w ELSE rows[j]
  BY <1>1, <1>5
<1> QED
  BY <1>4, <1>6

LEMMA StepMakes ==
    ASSUME Base, NEW c \in Call, Step(c), ~Record(c), ~EditTx(c)
    PROVE  NothingMade \/ RowMade
<1>1. CASE \/ SendRead(c) \/ CheckLast(c) \/ ListBefore(c) \/ EditList(c) \/ Fail(c)
           \/ \E op \in {"regenerate", "continue"}, i \in DOMAIN rows : AnswerRead(c, op, i)
           \/ \E i \in DOMAIN rows : EditRead(c, i)
  BY <1>1, QuietMakes
     DEF SendRead, CheckLast, ListBefore, EditList, Fail, AnswerRead, EditRead, history
<1>2. ASSUME NEW i \in 0 .. Len(rows), EditMax(c, i) PROVE NothingMade
  BY <1>2, QuietMakes DEF EditMax, history
<1>3. CASE ResetAssistantForRegenerate(c)
  <2>1. edits' = edits /\ tails' = tails /\ clock' = clock /\ calls[c].row \in DOMAIN rows
    BY <1>3, ResetRow DEF ResetAssistantForRegenerate, history
  <2>2. CASE rows' = rows
    BY <2>1, <2>2, QuietMakes
  <2>3. CASE rows' = [rows EXCEPT ![calls[c].row].content = <<>>]
    BY <2>1, <2>3, ContentOnly, Numbers DEF NothingMade
  <2> QED
    BY <1>3, <2>2, <2>3 DEF ResetAssistantForRegenerate
<1>4. ASSUME NEW text, Finish(c, text) PROVE NothingMade
  <2>1. edits' = edits /\ tails' = tails /\ clock' = clock /\ calls[c].row \in DOMAIN rows
    BY <1>4 DEF Finish, Ended, Base, Pointed, CallPointed, HoldsAnswer
  <2>2. CASE rows' = rows
    BY <2>1, <2>2, QuietMakes
  <2>3. ASSUME NEW s, rows' = [rows EXCEPT ![calls[c].row].content = s] PROVE NothingMade
    BY <2>1, <2>3, ContentOnly, Numbers DEF NothingMade
  <2> QED
    BY <1>4, <2>2, <2>3 DEF Finish, UpdateContent
<1>5. ASSUME NEW text, FinishUnsaved(c, text) PROVE NothingMade
  BY <1>5, QuietMakes DEF FinishUnsaved, Ended
<1>6. CASE SendUser(c) \/ Draft(c)
  <2>1. /\ edits' = edits /\ Len(rows') = Len(rows) + 1
        /\ \A j \in DOMAIN rows : rows'[j] = rows[j]
    BY <1>6, CreateRow
  <2>2. tails' = tails /\ clock' = clock + 1
    BY <1>6 DEF SendUser, Draft, Create
  <2>3. rows'[Len(rows) + 1].at = clock
    <3>1. \E role, content : rows' = Append(rows, [role |-> role, content |-> content,
                                                   gone |-> FALSE, at |-> clock])
      BY <1>6 DEF SendUser, Draft, Create
    <3>2. PICK w : w.at = clock /\ rows' = Append(rows, w)
      BY <3>1
    <3>3. rows'[Len(rows) + 1] = w
      BY <3>2 DEF Base, Typed
    <3> QED
      BY <3>2, <3>3
  <2> QED
    BY <2>1, <2>2, <2>3 DEF RowMade
<1> QED
  BY <1>1, <1>2, <1>3, <1>4, <1>5, <1>6 DEF Step, Answers

Branched == RecordsAre /\ \A c \in Call : StampIsLast(c)

LEMMA StampTaken ==
    ASSUME Base, Base', RecordsAre, NEW c \in Call, NEW i \in 0 .. Len(rows), EditMax(c, i)
    PROVE  StampIsLast(c)'
<1>1. /\ rows' = rows /\ edits' = edits /\ clock' = clock + 1 /\ clock \in Nat
      /\ calls'[c].stamp = clock
  BY DEF EditMax, history, Base, Typed, CallRec
<1> QED
  BY <1>1 DEF StampIsLast, RecordsAre, Ordered

\* Only the reading of the last id brings a call to its transaction.
LEMMA NotAtTx ==
    ASSUME Base, NEW c \in Call, Step(c), \A i \in 0 .. Len(rows) : ~EditMax(c, i)
    PROVE  calls'[c].at # "tx"
<1>0. calls[c] \in CallRec /\ c \in DOMAIN calls
  BY DEF Base, Typed
<1>1. CASE SendRead(c)
  BY <1>0, <1>1 DEF SendRead, Begin, Idle
<1>2. CASE \E op \in {"regenerate", "continue"}, i \in DOMAIN rows : AnswerRead(c, op, i)
  BY <1>0, <1>2 DEF AnswerRead, Begin, Idle
<1>3. CASE \E i \in DOMAIN rows : EditRead(c, i)
  BY <1>0, <1>3 DEF EditRead, Begin, Idle
<1>4. CASE SendUser(c) \/ Draft(c)
  BY <1>0, <1>4 DEF SendUser, Draft, CallRec
<1>5. CASE CheckLast(c) \/ ResetAssistantForRegenerate(c) \/ EditTx(c)
  <2>1. \/ Go(c, "before") \/ Go(c, "stream") \/ Go(c, "upto") \/ Done(c)
    BY <1>5, EditTxEffect DEF CheckLast, ResetAssistantForRegenerate, Base
  <2> QED
    BY <1>0, <2>1 DEF Go, Done, Idle, CallRec
<1>6. CASE ListBefore(c)
  <2>1. ASSUME NEW at \in {"stream", "reset"}, NEW p,
               calls' = [calls EXCEPT ![c].at = at, ![c].prompt = p]
        PROVE  calls'[c].at # "tx"
    BY <2>1, AskTells DEF Base
  <2> QED
    BY <1>6, <2>1 DEF ListBefore
<1>7. CASE EditList(c)
  <2>1. PICK p : calls' = [calls EXCEPT ![c].at = "draft", ![c].prompt = p]
    BY <1>7 DEF EditList
  <2>2. calls'[c].at = "draft"
    BY <2>1, AskTells DEF Base
  <2> QED
    BY <2>2
<1>8. CASE Fail(c) \/ Record(c)
  BY <1>0, <1>8 DEF Fail, Record, Done, Idle
<1>9. ASSUME NEW text, Finish(c, text) \/ FinishUnsaved(c, text) PROVE calls'[c].at # "tx"
  BY <1>0, <1>9 DEF Finish, FinishUnsaved, Ended, Go, Done, Idle, CallRec
<1> QED
  BY <1>1, <1>2, <1>3, <1>4, <1>5, <1>6, <1>7, <1>8, <1>9 DEF Step, Answers

LEMMA BranchedStep ==
    ASSUME Base, Base', DeletedIsRecorded, OneCall, OneCall', Shape, Branched, [Next]_vars
    PROVE  Branched'
<1>0. RecordsAre /\ (\A c \in Call : StampIsLast(c)) /\ \A c \in Call : CallAsRead(c)
  BY DEF Branched, Shape
<1>1. ASSUME NEW c \in Call, Step(c) PROVE Branched'
  <2>1. RecordsAre'
    <3>1. CASE Record(c)
      BY <1>0, <3>1, RecordRecords
    <3>2. CASE EditTx(c)
      BY <1>0, <3>2, EditTxRecords
    <3>3. CASE ~Record(c) /\ ~EditTx(c)
      BY <1>0, <1>1, <3>3, StepMakes, NothingMadeRecords, RowMadeRecords
    <3> QED
      BY <3>1, <3>2, <3>3
  <2>2. StampIsLast(c)'
    <3>1. CASE \E i \in 0 .. Len(rows) : EditMax(c, i)
      BY <1>0, <3>1, StampTaken
    <3>2. CASE \A i \in 0 .. Len(rows) : ~EditMax(c, i)
      BY <1>1, <3>2, NotAtTx DEF StampIsLast
    <3> QED
      BY <3>1, <3>2
  <2>3. ASSUME NEW d \in Call \ {c} PROVE StampIsLast(d)'
    BY <1>1, OthersIdle DEF StampIsLast, Idle
  <2> QED
    BY <2>1, <2>2, <2>3 DEF Branched
<1>2. CASE Crash
  <2>1. /\ rows' = rows /\ edits' = edits /\ tails' = tails /\ clock' = clock
        /\ \A c \in Call : calls'[c] = Idle
    BY <1>2 DEF Crash
  <2>2. RecordsAre'
    BY <1>0, <2>1, QuietMakes, NothingMadeRecords
  <2> QED
    BY <2>1, <2>2 DEF Branched, StampIsLast, Idle
<1>3. CASE UNCHANGED vars
  <2>1. /\ rows' = rows /\ edits' = edits /\ tails' = tails /\ clock' = clock
        /\ calls' = calls
    BY <1>3 DEF vars
  <2>2. RecordsAre'
    BY <1>0, <2>1, QuietMakes, NothingMadeRecords
  <2> QED
    BY <1>0, <2>1, <2>2 DEF Branched, StampIsLast
<1> QED
  BY <1>1, <1>2, <1>3 DEF Next

AloneBranched == alone => Branched

LEMMA AloneBranchedInit == MCInit => AloneBranched
<1> SUFFICES ASSUME MCInit PROVE Branched
  BY DEF AloneBranched
<1>1. rows = <<>> /\ edits = <<>> /\ tails = <<>> /\ calls = [c \in Call |-> Idle]
  BY DEF MCInit, Init
<1>2. tails \in Seq(SUBSET Nat) /\ Len(tails) = Len(edits)
      /\ DOMAIN rows = {} /\ DOMAIN edits = {}
  BY <1>1
<1>3. Ordered
  BY <1>2 DEF Ordered
<1>4. \A c \in Call : calls[c].at # "tx"
  BY <1>1 DEF Idle
<1> QED
  BY <1>2, <1>3, <1>4 DEF Branched, RecordsAre, StampIsLast

LEMMA AloneBranchedHolds == MCSpec => []AloneBranched
<1>1. Base /\ Base' /\ DeletedIsRecorded /\ Alone /\ Alone' /\ AloneBranched
        /\ [MCNext]_<<vars, alone>> => AloneBranched'
  <2> SUFFICES ASSUME Base, Base', DeletedIsRecorded, Alone, Alone', AloneBranched,
                      [MCNext]_<<vars, alone>>, alone'
               PROVE  Branched'
    BY DEF AloneBranched
  <2>1. alone /\ [Next]_vars
    BY DEF MCNext
  <2>2. OneCall /\ OneCall' /\ Shape /\ Branched
    BY <2>1 DEF Alone, AloneBranched
  <2> QED
    BY <2>1, <2>2, BranchedStep
<1>2. MCSpec => Spec
  BY AloneIsSpec
<1> QED
  BY <1>1, <1>2, BaseHolds, DeletionsOnRecord, AloneHolds, AloneBranchedInit, PTL DEF MCSpec

-----------------------------------------------------------------------------
(* The members of a finite set by their times: one is k-th for each k, and none
   lies between the k-th and the next. *)

UpToTime(E, at, e) == {d \in E : at[d] <= at[e]}

LEMMA RanksFinite ==
    ASSUME NEW E, IsFiniteSet(E), NEW at \in [E -> Nat], NEW e \in E
    PROVE  /\ IsFiniteSet(UpToTime(E, at, e)) /\ e \in UpToTime(E, at, e)
           /\ UpToTime(E, at, e) \subseteq E
           /\ Cardinality(UpToTime(E, at, e)) \in 1 .. Cardinality(E)
<1>1. UpToTime(E, at, e) \in SUBSET E /\ e \in UpToTime(E, at, e)
  BY DEF UpToTime
<1>2. /\ IsFiniteSet(UpToTime(E, at, e))
      /\ Cardinality(UpToTime(E, at, e)) <= Cardinality(E)
  BY <1>1, FS_Subset
<1>3. /\ Cardinality(UpToTime(E, at, e)) \in Nat /\ Cardinality(E) \in Nat
      /\ Cardinality(UpToTime(E, at, e)) # 0
  BY <1>1, <1>2, FS_CardinalityType, FS_EmptySet
<1> QED
  BY <1>1, <1>2, <1>3

\* Of two, the one with the smaller number is the earlier one.
LEMMA RanksOrder ==
    ASSUME NEW E, IsFiniteSet(E), NEW at \in [E -> Nat], NEW d \in E, NEW e \in E,
           Cardinality(UpToTime(E, at, d)) < Cardinality(UpToTime(E, at, e))
    PROVE  at[d] < at[e]
<1> SUFFICES ASSUME ~(at[d] < at[e]) PROVE FALSE
  OBVIOUS
<1>1. UpToTime(E, at, e) \in SUBSET UpToTime(E, at, d)
  BY DEF UpToTime
<1>2. Cardinality(UpToTime(E, at, e)) <= Cardinality(UpToTime(E, at, d))
  BY <1>1, RanksFinite, FS_Subset
<1> QED
  BY <1>2, RanksFinite

LEMMA RankExists ==
    ASSUME NEW E, IsFiniteSet(E), NEW at \in [E -> Nat],
           \A d, e \in E : at[d] = at[e] => d = e,
           NEW k \in 1 .. Cardinality(E)
    PROVE  \E e \in E : Cardinality(UpToTime(E, at, e)) = k
<1> DEFINE N == 1 .. Cardinality(E)
           rank == [e \in E |-> Cardinality(UpToTime(E, at, e))]
<1>1. Cardinality(E) \in Nat
  BY FS_CardinalityType
<1>2. IsFiniteSet(N) /\ Cardinality(N) = Cardinality(E)
  BY <1>1, FS_Interval
<1>3. rank \in [E -> N]
  BY RanksFinite
<1>4. ASSUME NEW d \in E, NEW e \in E, at[d] < at[e]
      PROVE  rank[d] # rank[e]
  <2>1. UpToTime(E, at, d) \in SUBSET UpToTime(E, at, e) /\ e \notin UpToTime(E, at, d)
    BY <1>4 DEF UpToTime
  <2>2. Cardinality(UpToTime(E, at, d)) # Cardinality(UpToTime(E, at, e))
    BY <2>1, RanksFinite, FS_Subset
  <2> QED
    BY <2>2
<1>5. ASSUME NEW d \in E, NEW e \in E, rank[d] = rank[e] PROVE d = e
  <2>1. ~(at[d] < at[e]) /\ ~(at[e] < at[d])
    BY <1>4, <1>5
  <2> QED
    BY <2>1
<1> HIDE DEF rank, N
<1>6. rank \in Injection(E, N)
  BY <1>3, <1>5 DEF Injection, IsInjective
<1>7. rank \in Surjection(E, N)
  BY <1>2, <1>6, FS_Injection
<1>8. \E e \in E : rank[e] = k
  BY <1>7 DEF Surjection, N
<1> QED
  BY <1>8 DEF rank

LEMMA RanksNext ==
    ASSUME NEW E, IsFiniteSet(E), NEW at \in [E -> Nat], NEW d \in E, NEW e \in E,
           Cardinality(UpToTime(E, at, e)) = Cardinality(UpToTime(E, at, d)) + 1,
           NEW x \in E, at[x] < at[e]
    PROVE  at[x] <= at[d]
<1> DEFINE D == UpToTime(E, at, d)
           U == UpToTime(E, at, e) \ {e}
<1>1. Cardinality(D) \in Nat /\ IsFiniteSet(D)
  BY RanksFinite
<1>2. IsFiniteSet(U) /\ Cardinality(U) = Cardinality(D)
  <2>1. e \in UpToTime(E, at, e) /\ IsFiniteSet(UpToTime(E, at, e))
    BY RanksFinite
  <2>2. Cardinality(U) = Cardinality(UpToTime(E, at, e)) - 1 /\ IsFiniteSet(U)
    BY <2>1, FS_RemoveElement
  <2> QED
    BY <1>1, <2>2
<1>3. at[d] < at[e]
  BY <1>1, RanksFinite, RanksOrder
<1>4. D \in SUBSET U
  BY <1>3 DEF UpToTime
<1>5. U = D
  BY <1>2, <1>4, FS_Subset
<1>6. x \in U
  BY DEF UpToTime
<1> QED
  BY <1>5, <1>6 DEF UpToTime

LEMMA RanksFirst ==
    ASSUME NEW E, IsFiniteSet(E), NEW at \in [E -> Nat], NEW e \in E,
           Cardinality(UpToTime(E, at, e)) = 1, NEW x \in E
    PROVE  ~(at[x] < at[e])
<1> SUFFICES ASSUME at[x] < at[e] PROVE FALSE
  OBVIOUS
<1>1. x \in UpToTime(E, at, e) /\ e \in UpToTime(E, at, e) /\ x # e
  BY DEF UpToTime
<1>2. PICK y : UpToTime(E, at, e) = {y}
  BY RanksFinite, FS_Singleton
<1> QED
  BY <1>1, <1>2

LEMMA RanksLast ==
    ASSUME NEW E, IsFiniteSet(E), NEW at \in [E -> Nat], NEW e \in E,
           Cardinality(UpToTime(E, at, e)) = Cardinality(E), NEW x \in E
    PROVE  at[x] <= at[e]
<1>1. UpToTime(E, at, e) = E
  BY RanksFinite, FS_Subset
<1> QED
  BY <1>1 DEF UpToTime

-----------------------------------------------------------------------------
(* What the versions of a message show *)

EditTimes(m) == [e \in EditsOf(m) |-> edits[e].at]

LEMMA EditsFinite ==
    ASSUME Base, NEW m
    PROVE  IsFiniteSet(EditsOf(m))
<1>1. EditsOf(m) \in SUBSET (1 .. Len(edits)) /\ Len(edits) \in Nat
  BY Numbers DEF EditsOf
<1>2. IsFiniteSet(1 .. Len(edits))
  <2>1. 1 \in Int /\ Len(edits) \in Int
    BY <1>1
  <2> QED
    BY <2>1, FS_Interval
<1> QED
  BY ONLY <1>1, <1>2, FS_Subset

LEMMA NthIs ==
    ASSUME Base, Ordered, NEW m, NEW k \in 1 .. Cardinality(EditsOf(m))
    PROVE  /\ IsFiniteSet(EditsOf(m)) /\ EditTimes(m) \in [EditsOf(m) -> Nat]
           /\ Nth(m, k) \in EditsOf(m)
           /\ Cardinality(UpToTime(EditsOf(m), EditTimes(m), Nth(m, k))) = k
<1> DEFINE E == EditsOf(m)
           at == EditTimes(m)
<1>2. IsFiniteSet(E)
  BY EditsFinite
<1>3. at \in [E -> Nat]
  BY Numbers DEF EditTimes, EditsOf
<1>4. ASSUME NEW d \in E, NEW e \in E, at[d] = at[e] PROVE d = e
  <2>1. d \in DOMAIN edits /\ e \in DOMAIN edits /\ d \in Nat /\ e \in Nat
    BY Numbers DEF EditsOf
  <2>2. edits[d].at = edits[e].at /\ edits[d].at \in Nat
    BY <1>4, <2>1, Numbers DEF EditTimes
  <2>3. ~(d < e) /\ ~(e < d)
    BY <2>1, <2>2 DEF Ordered
  <2> QED
    BY <2>1, <2>3
<1>5. ASSUME NEW e \in E
      PROVE  {d \in E : edits[d].at <= edits[e].at} = UpToTime(E, at, e)
  BY DEF UpToTime, EditTimes
<1> HIDE DEF E, at
<1>6. PICK e \in E : Cardinality(UpToTime(E, at, e)) = k
  BY <1>2, <1>3, <1>4, RankExists DEF E
<1>7. Cardinality({d \in E : edits[d].at <= edits[e].at}) = k
  BY <1>5, <1>6
<1>8. /\ Nth(m, k) \in E
      /\ Cardinality({d \in E : edits[d].at <= edits[Nth(m, k)].at}) = k
  BY <1>7 DEF Nth, E
<1>9. Cardinality(UpToTime(E, at, Nth(m, k))) = k
  BY <1>5, <1>8
<1> QED
  BY <1>2, <1>3, <1>8, <1>9 DEF E, at

\* Nothing lies between the k-th edit of a message and the next.
LEMMA NthOrder ==
    ASSUME Base, Ordered, NEW m, IsFiniteSet(EditsOf(m)),
           NEW k \in 0 .. Cardinality(EditsOf(m)), NEW x \in EditsOf(m)
    PROVE  /\ k # 0 => /\ Nth(m, k) \in EditsOf(m)
                       /\ k = Cardinality(EditsOf(m)) => edits[x].at <= edits[Nth(m, k)].at
           /\ k < Cardinality(EditsOf(m)) =>
                 /\ Nth(m, k + 1) \in EditsOf(m)
                 /\ k # 0 => edits[Nth(m, k)].at < edits[Nth(m, k + 1)].at
                 /\ k = 0 => ~(edits[x].at < edits[Nth(m, k + 1)].at)
                 /\ k # 0 /\ edits[x].at < edits[Nth(m, k + 1)].at =>
                       edits[x].at <= edits[Nth(m, k)].at
<1>1. Cardinality(EditsOf(m)) \in Nat /\ k \in Nat
  BY FS_CardinalityType
<1> PICK E : E = EditsOf(m)
  OBVIOUS
<1> PICK at : at = EditTimes(m)
  OBVIOUS
<1>2. ASSUME NEW e \in E PROVE edits[e].at = at[e]
  BY DEF EditTimes
<1>3. CASE k # 0
  <2> PICK p : p = Nth(m, k)
    OBVIOUS
  <2>1. k \in 1 .. Cardinality(EditsOf(m))
    BY <1>1, <1>3
  <2>2. p \in E /\ Cardinality(UpToTime(E, at, p)) = k /\ at \in [E -> Nat] /\ IsFiniteSet(E)
    BY <2>1, NthIs
  <2>3. k = Cardinality(E) => at[x] <= at[p]
    BY <2>2, RanksLast
  <2>4. ASSUME k < Cardinality(E)
        PROVE  /\ Nth(m, k + 1) \in E
               /\ at[p] < at[Nth(m, k + 1)]
               /\ at[x] < at[Nth(m, k + 1)] => at[x] <= at[p]
    <3> PICK q : q = Nth(m, k + 1)
      OBVIOUS
    <3>1. k + 1 \in 1 .. Cardinality(EditsOf(m))
      BY <1>1, <2>4
    <3>2. q \in E /\ Cardinality(UpToTime(E, at, q)) = k + 1
      BY <3>1, NthIs
    <3>3. at[p] < at[q]
      BY <1>1, <2>2, <3>2, RanksOrder
    <3>4. at[x] < at[q] => at[x] <= at[p]
      BY <2>2, <3>2, RanksNext
    <3> QED
      BY <3>2, <3>3, <3>4
  <2> QED
    BY <1>2, <1>3, <2>2, <2>3, <2>4
<1>4. CASE k = 0 /\ k < Cardinality(E)
  <2> PICK q : q = Nth(m, k + 1)
    OBVIOUS
  <2>1. k + 1 \in 1 .. Cardinality(EditsOf(m))
    BY <1>1, <1>4
  <2>2. q \in E /\ Cardinality(UpToTime(E, at, q)) = 1 /\ at \in [E -> Nat] /\ IsFiniteSet(E)
    BY <1>4, <2>1, NthIs
  <2>3. ~(at[x] < at[q])
    BY <2>2, RanksFirst
  <2> QED
    BY <1>2, <1>4, <2>2, <2>3
<1> QED
  BY <1>3, <1>4

\* What followed the message when a version ended is shown by that version.
LEMMA TailShown ==
    ASSUME Base, RecordsAre, NEW m \in Visible, NEW k \in 0 .. Cardinality(EditsOf(m)),
           IsFiniteSet(EditsOf(m)),
           NEW i \in IF k = Cardinality(EditsOf(m)) THEN {j \in Visible : j > m}
                     ELSE tails[Nth(m, k + 1)]
    PROVE  i \in VersionTail(m, k)
<1>1. /\ Ordered /\ m \in DOMAIN rows /\ Cardinality(EditsOf(m)) \in Nat /\ k \in Nat
      /\ DOMAIN edits \subseteq Nat /\ DOMAIN rows \subseteq Nat
      /\ \A e \in DOMAIN edits : edits[e].at \in Nat
      /\ \A j \in DOMAIN rows : rows[j].at \in Nat
  BY Numbers, FS_CardinalityType DEF RecordsAre, Visible
<1>2. \A e \in EditsOf(m) : /\ e \in DOMAIN edits /\ IsEdit(e) /\ edits[e].msg = m
                            /\ CutAll(e) /\ TailIs(e)
  BY DEF EditsOf, RecordsAre, RecordIs, IsEdit
<1>3. CASE k = Cardinality(EditsOf(m))
  <2>1. i \in Visible /\ i \in DOMAIN rows /\ m < i
    BY <1>3, <1>1 DEF Visible
  <2>2. rows[m].at <= rows[i].at
    BY <1>1, <2>1 DEF Ordered
  <2>3. ASSUME k # 0 PROVE edits[Nth(m, k)].at <= rows[i].at
    <3>1. PICK e : e = Nth(m, k) /\ e \in EditsOf(m)
      <4>1. k \in 1 .. Cardinality(EditsOf(m))
        BY <1>1, <2>3
      <4> QED
        BY <1>1, <4>1, NthIs
    <3>2. edits[e].from = m /\ edits[e].at < rows[i].at
      BY <1>2, <2>1, <3>1 DEF CutAll
    <3> QED
      BY <1>1, <1>2, <2>1, <3>1, <3>2
  <2> QED
    BY <1>1, <1>3, <2>1, <2>2, <2>3 DEF VersionTail
<1>4. CASE k < Cardinality(EditsOf(m))
  <2>1. PICK q : q = Nth(m, k + 1)
    OBVIOUS
  <2>2. q \in EditsOf(m)
    <3>1. k + 1 \in 1 .. Cardinality(EditsOf(m))
      BY <1>1, <1>4
    <3> QED
      BY <1>1, <2>1, <3>1, NthIs
  <2>3. /\ i \in DOMAIN rows /\ m < i /\ rows[i].at < edits[q].at
        /\ \A d \in EditsOf(m) : d < q => edits[d].at < rows[i].at
    <3>1. i \in tails[q]
      BY <1>1, <1>4, <2>1
    <3>2. TailIs(q) /\ edits[q].msg = m
      BY <1>2, <2>2
    <3> QED
      BY <1>2, <3>1, <3>2 DEF TailIs
  <2>4. rows[m].at <= rows[i].at
    BY <1>1, <2>3 DEF Ordered
  <2>5. ASSUME k # 0 PROVE edits[Nth(m, k)].at <= rows[i].at
    <3>1. PICK p : p = Nth(m, k)
      OBVIOUS
    <3>2. p \in EditsOf(m) /\ edits[p].at < edits[q].at
      BY <1>1, <1>4, <2>1, <2>2, <2>5, <3>1, NthOrder
    <3>3. p < q
      <4>1. p \in DOMAIN edits /\ q \in DOMAIN edits
        BY <1>2, <2>2, <3>2
      <4>2. ~(q < p) /\ p # q
        BY <1>1, <3>2, <4>1 DEF Ordered
      <4> QED
        BY <1>1, <4>1, <4>2
    <3> QED
      BY <1>1, <1>2, <2>3, <3>1, <3>2, <3>3
  <2> QED
    BY <1>4, <2>1, <2>3, <2>4, <2>5 DEF VersionTail
<1> QED
  BY <1>1, <1>3, <1>4

\* A row that a record covers, and that a later version of m shows, was cut by
\* the edit of a later message.
LEMMA CutByLater ==
    ASSUME Base, RecordsAre, NEW m \in Visible, NEW i \in DOMAIN rows, m < i,
           NEW d \in DOMAIN edits, edits[d].from < i, i <= edits[d].to,
           edits[d].msg = m /\ IsEdit(d) => ~(rows[i].at < edits[d].at)
    PROVE  edits[d].msg > m
<1>1. /\ m \in DOMAIN rows /\ m \in Nat /\ i \in Nat /\ rows[i].at \in Nat /\ rows[m].at \in Nat
      /\ edits[d].msg \in Nat /\ edits[d].at \in Nat
  BY Numbers DEF Visible
<1>2. IsEdit(d)
  BY <1>1 DEF RecordsAre, RecordIs
<1>3. CutAll(d)
  BY <1>2 DEF RecordsAre, RecordIs
<1>4. edits[d].msg # m
  BY <1>2, <1>3 DEF CutAll
<1>5. ~(edits[d].msg < m)
  <2> SUFFICES ASSUME edits[d].msg < m PROVE FALSE
    OBVIOUS
  <2>1. edits[d].at < rows[m].at
    BY <1>3 DEF CutAll
  <2>2. rows[m].at < rows[i].at
    BY <1>1 DEF RecordsAre, Ordered
  <2>3. rows[i].at < edits[d].at
    BY <1>3 DEF CutAll
  <2> QED
    BY <1>1, <2>1, <2>2, <2>3
<1> QED
  BY <1>1, <1>4, <1>5

LEMMA ShownIsTail ==
    ASSUME Base, RecordsAre, DeletedIsRecorded,
           NEW m \in Visible, NEW k \in 0 .. Cardinality(EditsOf(m)),
           IsFiniteSet(EditsOf(m)), NEW i \in VersionTail(m, k),
           i \notin IF k = Cardinality(EditsOf(m)) THEN {j \in Visible : j > m}
                    ELSE tails[Nth(m, k + 1)]
    PROVE  \E e \in DOMAIN edits :
              edits[e].msg > m /\ edits[e].from < i /\ i <= edits[e].to
<1>1. /\ Ordered /\ m \in DOMAIN rows /\ Cardinality(EditsOf(m)) \in Nat /\ k \in Nat
      /\ DOMAIN edits \subseteq Nat /\ DOMAIN rows \subseteq Nat
      /\ \A e \in DOMAIN edits : edits[e].at \in Nat
      /\ \A j \in DOMAIN rows : rows[j].at \in Nat
  BY Numbers, FS_CardinalityType DEF RecordsAre, Visible
<1>2. /\ i \in DOMAIN rows /\ i > m /\ m < i
      /\ k # 0 => edits[Nth(m, k)].at <= rows[i].at
      /\ k < Cardinality(EditsOf(m)) => rows[i].at < edits[Nth(m, k + 1)].at
  BY <1>1 DEF VersionTail
<1>3. PICK d \in DOMAIN edits :
         /\ edits[d].from < i /\ i <= edits[d].to
         /\ k < Cardinality(EditsOf(m)) => edits[d].at < edits[Nth(m, k + 1)].at
  <2>1. CASE k = Cardinality(EditsOf(m))
    <3>1. rows[i].gone
      BY <1>2, <2>1 DEF Visible
    <3> QED
      BY <1>1, <1>2, <2>1, <3>1 DEF DeletedIsRecorded
  <2>2. CASE k < Cardinality(EditsOf(m))
    <3> PICK q : q = Nth(m, k + 1)
      OBVIOUS
    <3>1. q \in EditsOf(m)
      <4>1. k + 1 \in 1 .. Cardinality(EditsOf(m))
        BY <1>1, <2>2
      <4> QED
        BY <1>1, <4>1, NthIs
    <3>2. TailIs(q) /\ edits[q].msg = m /\ q \in DOMAIN edits
      BY <3>1 DEF EditsOf, RecordsAre, RecordIs, IsEdit
    <3>3. i \notin tails[q]
      BY <1>1, <2>2
    <3>4. PICK d \in DOMAIN edits : d < q /\ edits[d].from < i /\ i <= edits[d].to
      BY <1>2, <2>2, <3>2, <3>3 DEF TailIs
    <3>5. edits[d].at < edits[q].at
      BY <1>1, <3>2, <3>4 DEF Ordered
    <3> QED
      BY <3>4, <3>5
  <2> QED
    BY <1>1, <2>1, <2>2
<1>4. edits[d].msg = m /\ IsEdit(d) => ~(rows[i].at < edits[d].at)
  <2> SUFFICES ASSUME d \in EditsOf(m) PROVE ~(rows[i].at < edits[d].at)
    BY DEF EditsOf, IsEdit
  <2>1. k # 0
    BY <1>1, <1>3, NthOrder, EditsOf(m) # {}, FS_EmptySet
  <2>2. PICK p : p = Nth(m, k) /\ p \in EditsOf(m) /\ edits[d].at <= edits[p].at
    BY <1>1, <1>3, <2>1, NthOrder
  <2>3. edits[p].at <= rows[i].at /\ edits[p].at \in Nat
    BY <1>1, <1>2, <2>1, <2>2 DEF EditsOf
  <2> QED
    BY <1>1, <1>2, <2>2, <2>3
<1>5. edits[d].msg > m
  BY <1>2, <1>3, <1>4, CutByLater
<1> QED
  BY <1>3, <1>5

LEMMA BranchesShown ==
    ASSUME Base, RecordsAre, DeletedIsRecorded
    PROVE  VersionsShowBranches
<1> SUFFICES ASSUME NEW m \in Visible, NEW k \in 0 .. Cardinality(EditsOf(m))
             PROVE  LET tail == IF k = Cardinality(EditsOf(m)) THEN {i \in Visible : i > m}
                                ELSE tails[Nth(m, k + 1)]
                    IN  /\ tail \subseteq VersionTail(m, k)
                        /\ \A i \in VersionTail(m, k) \ tail : \E e \in DOMAIN edits :
                              edits[e].msg > m /\ edits[e].from < i /\ i <= edits[e].to
  BY DEF VersionsShowBranches
<1>1. IsFiniteSet(EditsOf(m))
  BY EditsFinite
<1> QED
  BY <1>1, TailShown, ShownIsTail

(* AloneVersionsShowBranches: in a chat whose calls come one by one, a version
   of a user's message shows what followed it at that time, and beyond that only
   what edits of later messages have cut. *)
THEOREM VersionsShown == MCSpec => []AloneVersionsShowBranches
<1>1. Base /\ AloneBranched /\ DeletedIsRecorded => AloneVersionsShowBranches
  BY BranchesShown DEF AloneBranched, Branched, AloneVersionsShowBranches
<1> QED
  BY <1>1, AloneIsSpec, BaseHolds, AloneBranchedHolds, DeletionsOnRecord, PTL
=============================================================================
