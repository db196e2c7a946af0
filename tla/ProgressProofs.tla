--------------------------- MODULE ProgressProofs ---------------------------
(***************************************************************************)
(* The invariants of UploadProgress, proved for any number of uploads and  *)
(* any number of status changes of a document.                             *)
(***************************************************************************)
EXTENDS UploadProgress, TLAPS

USE DEF rowVars, streamVars, pageVars

(* What lastStatus may be, what a poll may read, and which frame was last. *)
Blank == ""
Known == Statuses \cup {Blank}
Snap == [what : Statuses \cup {"deleted"}, age : 1..MaxWrites]
LastFrame(d) == sent[d][Len(sent[d])]

(* The row is one thing at one age: a reading of that age says the same.   *)
Fits(snap, d) ==
  snap.age <= writes[d] /\ (snap.age = writes[d] => snap.what = stage[d])
Precedes(f, snap) == f.age <= snap.age /\ (f.age = snap.age => f.what = snap.what)

(* The row, its POST and its stream come about in this order.              *)
OrderInv(d) ==
  /\ stage[d] = "new" <=> writes[d] = 0
  /\ post[d] \in {"none", "sent"} => stage[d] = "new"
  /\ post[d] = "created" => stage[d] # "new"
  /\ post[d] # "over" => stream[d] = "none"
  /\ stream[d] # "none" => stage[d] # "new"
  /\ stream[d] # "open" => reading[d] = {}
  /\ stream[d] \in {"none", "check", "refused"} => sent[d] = <<>> /\ last[d] = Blank

(* The frames that are sent, and what an open stream knows of the row.     *)
Follows(f, g) ==
  /\ f.what \notin Ending
  /\ g.what \notin Ending => f.age < g.age
  /\ g.what = "done" <=> f.what \in Settled
Told(frames) == \A i \in 1..Len(frames) - 1 : Follows(frames[i], frames[i + 1])
OpenInv(d) ==
  stream[d] = "open" =>
    /\ sent[d] = <<>> => last[d] = Blank
    /\ sent[d] # <<>> => /\ last[d] = LastFrame(d).what /\ LastFrame(d).what \in InProgress
                         /\ Fits(LastFrame(d), d)
    /\ \A snap \in reading[d] :
         /\ Fits(snap, d)
         /\ sent[d] # <<>> => Precedes(LastFrame(d), snap)

TypeInv ==
  /\ stage \in [Docs -> Statuses \cup {"new", "deleted"}]
  /\ writes \in [Docs -> 0..MaxWrites]
  /\ stream \in [Docs -> {"none", "check", "open", "refused", "over"}]
  /\ deaf \subseteq Docs
  /\ reading \in [Docs -> SUBSET Snap]
  /\ \A d \in Docs : \A s, t \in reading[d] : s = t
  /\ last \in [Docs -> Known]
  /\ sent \in [Docs -> Seq(Frame)]
  /\ post \in [Docs -> {"none", "sent", "created", "over"}]
  /\ item \in Statuses \cup {"absent", "uploading", "error", "dropped"}
  /\ watching \in 0..MaxUploads
  /\ got \in [Docs -> Nat]
  /\ \A d \in Docs : got[d] <= Len(sent[d])

DocInv(d) == OrderInv(d) /\ Told(sent[d]) /\ OpenInv(d)

IInv == TypeInv /\ \A d \in Docs : DocInv(d)

-----------------------------------------------------------------------------
(* A document that a step leaves alone.                                    *)
Same(d) ==
  /\ stage'[d] = stage[d] /\ writes'[d] = writes[d]
  /\ stream'[d] = stream[d] /\ reading'[d] = reading[d]
  /\ last'[d] = last[d] /\ sent'[d] = sent[d] /\ post'[d] = post[d]

LEMMA SameKeeps ==
  ASSUME NEW d \in Docs, DocInv(d), Same(d)
  PROVE  DocInv(d)'
BY DEF DocInv, OrderInv, Told, OpenInv, Same, Fits, Precedes, LastFrame

LEMMA DocsAreNumbers == Docs \subseteq 0..MaxUploads /\ \A d \in Docs : d # 0
BY ProgressBounds DEF Docs

(* A frame may be appended to what is told if it follows the last one.     *)
LEMMA Appended ==
  ASSUME NEW s \in Seq(Frame), NEW f \in Frame, Told(s),
         s # <<>> => Follows(s[Len(s)], f)
  PROVE  /\ s \o <<f>> \in Seq(Frame) /\ Told(s \o <<f>>)
         /\ Len(s \o <<f>>) = Len(s) + 1 /\ s \o <<f>> # <<>>
         /\ (s \o <<f>>)[Len(s \o <<f>>)] = f
<1> DEFINE t == s \o <<f>>
<1>1. /\ t \in Seq(Frame) /\ Len(t) = Len(s) + 1 /\ t # <<>> /\ t[Len(t)] = f
      /\ \A i \in 1..Len(s) : t[i] = s[i]
  OBVIOUS
<1>2. ASSUME NEW i \in 1..Len(t) - 1 PROVE Follows(t[i], t[i + 1])
  <2>1. Len(s) \in Nat /\ i \in 1..Len(s) /\ Len(t) = Len(s) + 1
    BY <1>1
  <2> HIDE DEF t
  <2>2. CASE i = Len(s)
    <3>1. s # <<>>
      BY <2>1
    <3>2. t[i] = s[Len(s)] /\ t[i + 1] = f
      BY <1>1, <2>1, <2>2
    <3> QED
      BY <3>1, <3>2
  <2>3. CASE i # Len(s)
    <3>1. i \in 1..Len(s) - 1 /\ i + 1 \in 1..Len(s)
      BY <2>1, <2>3
    <3> QED
      BY <1>1, <2>1, <3>1 DEF Told
  <2> QED
    BY <2>2, <2>3
<1> HIDE DEF t
<1>3. Told(t)
  BY <1>2 DEF Told
<1> QED
  BY <1>1, <1>3 DEF t

LEMMA Endings == 
  \A what \in Ending : /\ Last(what) \in Frame /\ Last(what).what = what
                       /\ what \notin InProgress \cup Settled
BY DEF Last, Frame, Ending, InProgress, Settled

(* Every frame carries an age.                                             *)
LEMMA Ages ==
  /\ \A f \in Frame : f.age \in Int
  /\ \A s \in Seq(Frame) : s # <<>> => s[Len(s)] \in Frame
<1>1. \A f \in Frame : f.age \in Int
  BY ProgressBounds DEF Frame
<1>2. ASSUME NEW s \in Seq(Frame), s # <<>> PROVE s[Len(s)] \in Frame
  BY <1>2
<1> QED
  BY <1>1, <1>2

-----------------------------------------------------------------------------
(* The row.                                                                *)

LEMMA RowMoves ==
  ASSUME TypeInv, NEW d \in Docs, RowChanges(d)
  PROVE  /\ stage' \in [Docs -> Statuses \cup {"new", "deleted"}]
         /\ stage[d] # "new" /\ stage'[d] # "new"
         /\ \A e \in Docs \ {d} : stage'[e] = stage[e]
<1> DEFINE Stages == Statuses \cup {"new", "deleted"}
<1>1. stage \in [Docs -> Stages]
  BY DEF TypeInv
<1>2. CASE Lifecycle!Advance(d)
  <2>1. PICK i \in 1..4, j \in 1..4 :
          stage[d] = Lifecycle!Pipeline[i] /\ stage' = [stage EXCEPT ![d] = Lifecycle!Pipeline[j]]
    BY <1>2 DEF Lifecycle!Advance, Lifecycle!Move, Lifecycle!Pipeline
  <2>2. \A k \in 1..4 : Lifecycle!Pipeline[k] \in Stages \ {"new"}
    BY DEF Lifecycle!Pipeline, Statuses, InProgress, Settled
  <2> QED
    BY <1>1, <2>1, <2>2
<1>3. CASE Lifecycle!Recover(d)
  <2>1. PICK s \in {"PARSING", "EMBEDDING", "READY"} :
          stage[d] = "FAILED" /\ stage' = [stage EXCEPT ![d] = s]
    BY <1>3 DEF Lifecycle!Recover, Lifecycle!Move
  <2> QED
    BY <1>1, <2>1 DEF Statuses, InProgress, Settled
<1>4. CASE Lifecycle!Fail({d})
  BY <1>1, <1>4 DEF Lifecycle!Fail, Statuses, InProgress, Settled
<1>5. CASE Lifecycle!Delete(d)
  BY <1>1, <1>5 DEF Lifecycle!Delete, Lifecycle!Move
<1> QED
  BY <1>2, <1>3, <1>4, <1>5 DEF RowChanges

LEMMA RowStep ==
  ASSUME IInv, NEW d \in Docs, RowChanges(d)
  PROVE  IInv'
<1>1. /\ TypeInv /\ writes[d] < MaxWrites
      /\ writes' = [writes EXCEPT ![d] = writes[d] + 1]
      /\ UNCHANGED <<stream, deaf, reading, last, sent, post, item, watching, got>>
  BY DEF IInv, RowChanges
<1>a. writes \in [Docs -> 0..MaxWrites] /\ writes[d] \in 0..MaxWrites
  BY <1>1 DEF TypeInv
<1>2. /\ stage' \in [Docs -> Statuses \cup {"new", "deleted"}]
      /\ stage[d] # "new" /\ stage'[d] # "new"
      /\ \A e \in Docs \ {d} : stage'[e] = stage[e]
  BY <1>1, RowMoves
<1>3. /\ writes' \in [Docs -> 0..MaxWrites] /\ writes'[d] = writes[d] + 1
      /\ \A e \in Docs \ {d} : writes'[e] = writes[e]
  BY <1>1, <1>a, ProgressBounds
<1>4. TypeInv'
  BY <1>1, <1>2, <1>3 DEF TypeInv
<1>5. ASSUME NEW e \in Docs \ {d} PROVE DocInv(e)'
  BY <1>1, <1>2, <1>3, SameKeeps DEF IInv, Same
<1>6. DocInv(d)'
  <2>1. OrderInv(d) /\ Told(sent[d]) /\ OpenInv(d)
    BY DEF IInv, DocInv
  <2>2. OrderInv(d)'
    <3>1. writes[d] + 1 # 0 /\ writes[d] \in Nat
      BY <1>a, ProgressBounds
    <3> QED
      BY <1>1, <1>2, <1>3, <2>1, <3>1 DEF OrderInv
  <2>3. Told(sent'[d])
    BY <1>1, <2>1 DEF Told, Follows
  <2>4. OpenInv(d)'
    <3>1. ASSUME NEW f, f.age \in Int, Fits(f, d) PROVE Fits(f, d)'
      BY <1>a, <1>3, <3>1 DEF Fits
    <3>2. \A snap \in reading[d] : snap.age \in Int
      <4>1. reading[d] \subseteq Snap
        BY <1>1 DEF TypeInv
      <4> QED
        BY <4>1, ProgressBounds DEF Snap
    <3>3. sent[d] # <<>> => LastFrame(d).age \in Int
      BY <1>1, ProgressBounds, Ages DEF TypeInv, LastFrame
    <3>4. LastFrame(d)' = LastFrame(d)
      BY <1>1 DEF LastFrame
    <3> QED
      BY <1>1, <2>1, <3>1, <3>2, <3>3, <3>4 DEF OpenInv, Precedes
  <2> QED
    BY <2>2, <2>3, <2>4 DEF DocInv
<1> QED
  BY <1>4, <1>5, <1>6 DEF IInv

-----------------------------------------------------------------------------
(* The events handler.                                                     *)

(* A step that touches one document keeps the invariant of the others.     *)
LEMMA OneDocument ==
  ASSUME IInv, NEW d \in Docs, TypeInv', \A e \in Docs \ {d} : Same(e), DocInv(d)'
  PROVE  IInv'
<1>1. ASSUME NEW e \in Docs \ {d} PROVE DocInv(e)'
  BY SameKeeps DEF IInv
<1> QED
  BY <1>1 DEF IInv

(* What is known of a document whose stream is open.                       *)
LEMMA OpenStream ==
  ASSUME IInv, NEW d \in Docs, stream[d] = "open"
  PROVE  /\ stage[d] \in Statuses \cup {"deleted"} /\ writes[d] \in 1..MaxWrites
         /\ post[d] = "over" /\ sent[d] \in Seq(Frame) /\ Told(sent[d])
         /\ reading[d] \subseteq Snap /\ \A s, t \in reading[d] : s = t
         /\ sent[d] # <<>> => /\ last[d] = LastFrame(d).what
                              /\ LastFrame(d).what \in InProgress
                              /\ LastFrame(d) \in Frame /\ Fits(LastFrame(d), d)
<1>1. /\ TypeInv /\ OrderInv(d) /\ OpenInv(d) /\ Told(sent[d])
  BY DEF IInv, DocInv
<1>2. /\ stage[d] \in Statuses \cup {"new", "deleted"} /\ writes[d] \in 0..MaxWrites
      /\ sent[d] \in Seq(Frame) /\ reading[d] \subseteq Snap /\ \A s, t \in reading[d] : s = t
      /\ post[d] \in {"none", "sent", "created", "over"}
  BY <1>1 DEF TypeInv
<1>3. stage[d] # "new" /\ writes[d] # 0 /\ post[d] = "over"
  BY <1>1, <1>2 DEF OrderInv
<1>4. writes[d] \in 1..MaxWrites
  BY <1>2, <1>3, ProgressBounds
<1>5. sent[d] # <<>> => LastFrame(d) \in Frame
  BY <1>2, Ages DEF LastFrame
<1> QED
  BY <1>1, <1>2, <1>3, <1>4, <1>5 DEF OpenInv

LEMMA CheckStep ==
  ASSUME IInv, NEW d \in Docs, Check(d)
  PROVE  IInv'
<1>1. /\ TypeInv /\ OrderInv(d) /\ Told(sent[d]) /\ stream[d] = "check" /\ deaf' \subseteq Docs
      /\ \E s \in {"open", "refused"} : stream' = [stream EXCEPT ![d] = s]
      /\ UNCHANGED <<stage, writes, reading, last, sent, post, item, watching, got>>
  BY DEF IInv, DocInv, TypeInv, Check
<1>2. PICK s \in {"open", "refused"} : stream' = [stream EXCEPT ![d] = s]
  BY <1>1
<1>3. /\ stream' \in [Docs -> {"none", "check", "open", "refused", "over"}]
      /\ stream'[d] \in {"open", "refused"} /\ \A e \in Docs \ {d} : stream'[e] = stream[e]
  BY <1>1, <1>2 DEF TypeInv
<1>4. TypeInv'
  BY <1>1, <1>3 DEF TypeInv
<1>5. DocInv(d)'
  BY <1>1, <1>3 DEF DocInv, OrderInv, OpenInv
<1>6. \A e \in Docs \ {d} : Same(e)
  BY <1>1, <1>3 DEF Same
<1> QED
  BY <1>4, <1>5, <1>6, OneDocument

LEMMA TickStep ==
  ASSUME IInv, NEW d \in Docs, Tick(d)
  PROVE  IInv'
<1>0. PICK snap : snap = [what |-> stage[d], age |-> writes[d]]
  OBVIOUS
<1>1. /\ TypeInv /\ OrderInv(d) /\ OpenInv(d) /\ Told(sent[d]) /\ stream[d] = "open"
      /\ reading' = [reading EXCEPT ![d] = {snap}]
      /\ UNCHANGED <<stage, writes, stream, deaf, last, sent, post, item, watching, got>>
  BY <1>0 DEF IInv, DocInv, Tick
<1>2. snap \in Snap /\ snap.what = stage[d] /\ snap.age = writes[d]
  BY <1>0, <1>1, OpenStream DEF Snap
<1>3. /\ reading' \in [Docs -> SUBSET Snap] /\ reading'[d] = {snap}
      /\ \A e \in Docs \ {d} : reading'[e] = reading[e]
  BY <1>1, <1>2 DEF TypeInv
<1>4. \A e \in Docs : \A s, t \in reading'[e] : s = t
  BY <1>1, <1>3 DEF TypeInv
<1>5. TypeInv'
  BY <1>1, <1>3, <1>4 DEF TypeInv
<1>6. OrderInv(d)'
  BY <1>1 DEF OrderInv
<1>7. OpenInv(d)'
  <2>1. writes[d] \in Int
    BY <1>1, OpenStream
  <2>2. LastFrame(d)' = LastFrame(d)
    BY <1>1 DEF LastFrame
  <2>3. Fits(snap, d)'
    BY <1>1, <1>2, <2>1 DEF Fits
  <2>5. ASSUME sent[d] # <<>> PROVE Precedes(LastFrame(d), snap)'
    <3>1. Fits(LastFrame(d), d)
      BY <1>1, <2>5 DEF OpenInv
    <3>2. Precedes(LastFrame(d), snap)
      BY <1>2, <3>1 DEF Fits, Precedes
    <3> QED
      BY <2>2, <3>2 DEF Precedes
  <2>4. sent[d] # <<>> => Fits(LastFrame(d), d)'
    BY <1>1, <2>2 DEF Fits, OpenInv
  <2> QED
    BY <1>1, <1>3, <2>2, <2>3, <2>4, <2>5 DEF OpenInv
<1>8. DocInv(d)'
  BY <1>1, <1>6, <1>7 DEF DocInv
<1>9. \A e \in Docs \ {d} : Same(e)
  BY <1>1, <1>3 DEF Same
<1> QED
  BY <1>5, <1>8, <1>9, OneDocument

(* A stream that is ended has told its frames, and knows nothing more.     *)
LEMMA EndStep ==
  ASSUME IInv, NEW d \in Docs, stream[d] = "open", End(d),
         NEW t \in Seq(Frame), Told(t), Len(t) >= Len(sent[d]),
         sent' = [sent EXCEPT ![d] = t],
         NEW s \in Known, last' = [last EXCEPT ![d] = s],
         UNCHANGED <<rowVars, deaf, pageVars>>
  PROVE  IInv'
<1>1. TypeInv /\ OrderInv(d)
  BY DEF IInv, DocInv
<1>2. /\ stream' \in [Docs -> {"none", "check", "open", "refused", "over"}] /\ stream'[d] = "over"
      /\ \A e \in Docs \ {d} : stream'[e] = stream[e]
  BY <1>1 DEF TypeInv, End
<1>3. /\ reading' \in [Docs -> SUBSET Snap] /\ reading'[d] = {}
      /\ \A e \in Docs \ {d} : reading'[e] = reading[e]
  BY <1>1 DEF TypeInv, End
<1>4. /\ sent' \in [Docs -> Seq(Frame)] /\ sent'[d] = t
      /\ \A e \in Docs \ {d} : sent'[e] = sent[e]
  BY <1>1 DEF TypeInv
<1>5. /\ last' \in [Docs -> Known]
      /\ \A e \in Docs \ {d} : last'[e] = last[e]
  BY <1>1 DEF TypeInv
<1>6. \A e \in Docs : \A x, y \in reading'[e] : x = y
  BY <1>1, <1>3 DEF TypeInv
<1>7. \A e \in Docs : got'[e] <= Len(sent'[e])
  <2>1. TAKE e \in Docs
  <2>2. got[e] \in Nat /\ got[e] <= Len(sent[e]) /\ sent[e] \in Seq(Frame) /\ got'[e] = got[e]
    BY <1>1 DEF TypeInv
  <2>3. CASE e = d
    <3>1. Len(sent[d]) \in Nat
      BY <2>2, <2>3
    <3>2. Len(t) \in Nat
      OBVIOUS
    <3>3. got[d] \in Nat /\ got[d] <= Len(sent[d]) /\ got'[d] = got[d]
      BY <2>2, <2>3
    <3>4. Len(sent[d]) <= Len(t)
      BY <3>1, <3>2
    <3>5. got[d] <= Len(t)
      BY <3>1, <3>2, <3>3, <3>4
    <3> QED
      BY <1>4, <2>3, <3>3, <3>5
  <2>4. CASE e # d
    BY <1>4, <2>2, <2>4
  <2> QED
    BY <2>3, <2>4
<1>8. TypeInv'
  BY <1>1, <1>2, <1>3, <1>4, <1>5, <1>6, <1>7 DEF TypeInv
<1>9. DocInv(d)'
  BY <1>1, <1>2, <1>3, <1>4 DEF DocInv, OrderInv, OpenInv
<1>10. \A e \in Docs \ {d} : Same(e)
  BY <1>2, <1>3, <1>4, <1>5 DEF Same
<1> QED
  BY <1>8, <1>9, <1>10, OneDocument

LEMMA CapStep ==
  ASSUME IInv, NEW d \in Docs, MaxTimer(d) \/ ReaderCloses(d)
  PROVE  IInv'
<1>1. stream[d] = "open" /\ End(d) /\ UNCHANGED <<rowVars, deaf, last, pageVars>>
  BY DEF MaxTimer, ReaderCloses
<1>2. last[d] \in Known /\ last' = [last EXCEPT ![d] = last[d]]
      /\ sent = [sent EXCEPT ![d] = sent[d]]
  BY <1>1 DEF IInv, TypeInv
<1>3. sent[d] \in Seq(Frame) /\ Told(sent[d])
  BY <1>1, OpenStream
<1>4. CASE MaxTimer(d)
  <2>1. sent' = [sent EXCEPT ![d] = sent[d] \o <<Last("timeout")>>]
    BY <1>4 DEF MaxTimer, Write
  <2>2. sent[d] # <<>> => Follows(sent[d][Len(sent[d])], Last("timeout"))
    BY <1>1, OpenStream, Endings DEF Follows, LastFrame, Ending, InProgress, Settled
  <2>3. Last("timeout") \in Frame
    BY Endings DEF Ending
  <2>4. PICK t \in Seq(Frame) :
          t = sent[d] \o <<Last("timeout")>> /\ Told(t) /\ Len(t) = Len(sent[d]) + 1
    BY <1>3, <2>2, <2>3, Appended
  <2>5. Len(t) >= Len(sent[d])
    BY <1>3, <2>4
  <2> QED
    BY <1>1, <1>2, <2>1, <2>4, <2>5, EndStep
<1>5. CASE ReaderCloses(d)
  <2>1. sent' = [sent EXCEPT ![d] = sent[d]]
    BY <1>2, <1>5 DEF ReaderCloses
  <2>2. Len(sent[d]) >= Len(sent[d])
    BY <1>3
  <2> QED
    BY <1>1, <1>2, <1>3, <2>1, <2>2, EndStep
<1> QED
  BY <1>4, <1>5

LEMMA AnswerStep ==
  ASSUME IInv, NEW d \in Docs, Answer(d)
  PROVE  IInv'
<1>1. PICK snap \in reading[d] :
        /\ \/ snap.what = "deleted" /\ Write(d, <<Last("gone")>>) /\ End(d) /\ UNCHANGED last
           \/ snap.what \notin {"deleted", last[d]} /\ Report(d, snap)
           \/ snap.what = last[d] /\ PollDone(d, snap) /\ UNCHANGED <<last, sent>>
           \/ End(d) /\ UNCHANGED <<last, sent>>
        /\ UNCHANGED <<rowVars, deaf, pageVars>>
  BY DEF Answer
<1>2. /\ stream[d] = "open" /\ TypeInv /\ OrderInv(d) /\ OpenInv(d)
  BY <1>1 DEF IInv, DocInv, OrderInv
<1>3. /\ snap \in Snap /\ reading[d] = {snap} /\ sent[d] \in Seq(Frame) /\ Told(sent[d])
      /\ Fits(snap, d)
  BY <1>1, <1>2, OpenStream DEF OpenInv
<1>4. last[d] \in Known /\ last = [last EXCEPT ![d] = last[d]]
      /\ sent = [sent EXCEPT ![d] = sent[d]]
  BY <1>2 DEF TypeInv
<1>5. Len(sent[d]) >= Len(sent[d]) /\ Len(sent[d]) \in Nat
  BY <1>3
<1>6. CASE snap.what = "deleted" /\ Write(d, <<Last("gone")>>) /\ End(d) /\ UNCHANGED last
  <2>1. sent' = [sent EXCEPT ![d] = sent[d] \o <<Last("gone")>>]
    BY <1>6 DEF Write
  <2>2. sent[d] # <<>> => Follows(sent[d][Len(sent[d])], Last("gone"))
    BY <1>2, OpenStream, Endings DEF Follows, LastFrame, Ending, InProgress, Settled
  <2>3. Last("gone") \in Frame
    BY Endings DEF Ending
  <2>4. PICK t \in Seq(Frame) :
          t = sent[d] \o <<Last("gone")>> /\ Told(t) /\ Len(t) = Len(sent[d]) + 1
    BY <1>3, <2>2, <2>3, Appended
  <2>5. Len(t) >= Len(sent[d])
    BY <1>5, <2>4
  <2>6. last' = [last EXCEPT ![d] = last[d]]
    BY <1>4, <1>6
  <2> QED
    BY <1>1, <1>2, <1>4, <1>6, <2>1, <2>4, <2>5, <2>6, EndStep
<1>7. CASE snap.what \notin {"deleted", last[d]} /\ Report(d, snap)
  <2>1. /\ snap.what \in Statuses /\ snap.what \in Known /\ snap.what # last[d] /\ snap \in Frame
        /\ last' = [last EXCEPT ![d] = snap.what]
    BY <1>3, <1>7 DEF Snap, Frame, Report, Known
  <2>2. sent[d] # <<>> => Follows(sent[d][Len(sent[d])], snap)
    <3>1. SUFFICES ASSUME sent[d] # <<>> PROVE Follows(LastFrame(d), snap)
      BY DEF LastFrame
    <3>2. /\ last[d] = LastFrame(d).what /\ LastFrame(d).what \in InProgress
          /\ LastFrame(d) \in Frame /\ Precedes(LastFrame(d), snap)
      BY <1>1, <1>2, <3>1, OpenStream DEF OpenInv
    <3>3. LastFrame(d).age \in Int /\ snap.age \in Int
      BY <2>1, <3>2, Ages
    <3>4. LastFrame(d).age < snap.age
      BY <2>1, <3>2, <3>3 DEF Precedes
    <3> QED
      BY <2>1, <3>2, <3>4 DEF Follows, Statuses, InProgress, Settled, Ending
  <2>3. PICK t \in Seq(Frame) :
          /\ t = sent[d] \o <<snap>> /\ Told(t) /\ Len(t) = Len(sent[d]) + 1
          /\ t # <<>> /\ t[Len(t)] = snap
    BY <1>3, <2>1, <2>2, Appended
  <2>4. CASE snap.what \in InProgress /\ Write(d, <<snap>>) /\ PollDone(d, snap)
    <3>1. /\ sent' \in [Docs -> Seq(Frame)] /\ sent'[d] = t
          /\ \A e \in Docs \ {d} : sent'[e] = sent[e]
      BY <1>2, <2>3, <2>4 DEF Write, TypeInv
    <3>2. /\ last' \in [Docs -> Known] /\ last'[d] = snap.what
          /\ \A e \in Docs \ {d} : last'[e] = last[e]
      BY <1>2, <2>1 DEF TypeInv
    <3>3. /\ reading' \in [Docs -> SUBSET Snap] /\ reading'[d] = {}
          /\ \A e \in Docs \ {d} : reading'[e] = reading[e]
      BY <1>2, <1>3, <2>4 DEF PollDone, TypeInv
    <3>4. \A e \in Docs : \A x, y \in reading'[e] : x = y
      <4>1. \A e \in Docs : \A x, y \in reading[e] : x = y
        BY <1>2 DEF TypeInv
      <4> QED
        BY <3>3, <4>1
    <3>5. \A e \in Docs : got'[e] <= Len(sent'[e])
      <4>1. TAKE e \in Docs
      <4>2. got[e] \in Nat /\ got[e] <= Len(sent[e]) /\ sent[e] \in Seq(Frame) /\ got'[e] = got[e]
        BY <1>1, <1>2 DEF TypeInv
      <4>3. Len(sent[e]) \in Nat /\ Len(sent'[e]) = IF e = d THEN Len(sent[d]) + 1 ELSE Len(sent[e])
        BY <2>3, <3>1, <4>2
      <4> QED
        BY <1>5, <4>2, <4>3
    <3>6. stream' = stream
      BY <2>4 DEF PollDone
    <3>7. TypeInv'
      BY <1>1, <1>2, <3>1, <3>2, <3>3, <3>4, <3>5, <3>6 DEF TypeInv
    <3>8. DocInv(d)'
      <4>1. OrderInv(d)'
        BY <1>1, <1>2, <3>6 DEF OrderInv
      <4>2. LastFrame(d)' = snap
        BY <2>3, <3>1 DEF LastFrame
      <4>3. Fits(snap, d)'
        BY <1>1, <1>3 DEF Fits
      <4>4. OpenInv(d)'
        BY <2>3, <2>4, <3>1, <3>2, <3>3, <4>2, <4>3 DEF OpenInv
      <4> QED
        BY <2>3, <3>1, <4>1, <4>4 DEF DocInv
    <3>9. \A e \in Docs \ {d} : Same(e)
      BY <1>1, <3>1, <3>2, <3>3, <3>6 DEF Same
    <3> QED
      BY <3>7, <3>8, <3>9, OneDocument
  <2>5. CASE snap.what \in Settled /\ Write(d, <<snap, Last("done")>>) /\ End(d)
    <3>1. Last("done") \in Frame /\ Follows(snap, Last("done"))
      BY <2>5, Endings DEF Follows, Ending, Settled
    <3>2. PICK u \in Seq(Frame) : u = t \o <<Last("done")>> /\ Told(u) /\ Len(u) = Len(t) + 1
      BY <2>3, <3>1, Appended
    <3>3. sent[d] \o <<snap, Last("done")>> = u
      BY <1>3, <2>1, <2>3, <3>1, <3>2
    <3>4. Len(u) >= Len(sent[d])
      BY <1>5, <2>3, <3>2
    <3>5. sent' = [sent EXCEPT ![d] = u]
      BY <2>5, <3>3 DEF Write
    <3> QED
      BY <1>1, <1>2, <2>1, <2>5, <3>2, <3>4, <3>5, EndStep
  <2> QED
    BY <1>7, <2>4, <2>5 DEF Report
<1>8. CASE snap.what = last[d] /\ PollDone(d, snap) /\ UNCHANGED <<last, sent>>
  <2>1. /\ reading' \in [Docs -> SUBSET Snap] /\ reading'[d] = {} /\ stream' = stream
        /\ \A e \in Docs \ {d} : reading'[e] = reading[e]
    BY <1>2, <1>3, <1>8 DEF PollDone, TypeInv
  <2>2. \A e \in Docs : \A x, y \in reading'[e] : x = y
    <3>1. \A e \in Docs : \A x, y \in reading[e] : x = y
      BY <1>2 DEF TypeInv
    <3> QED
      BY <2>1, <3>1
  <2>3. TypeInv'
    BY <1>1, <1>2, <1>8, <2>1, <2>2 DEF TypeInv
  <2>4. OrderInv(d)' /\ Told(sent[d])'
    BY <1>1, <1>2, <1>3, <1>8, <2>1 DEF OrderInv
  <2>5. LastFrame(d)' = LastFrame(d)
    BY <1>8 DEF LastFrame
  <2>6. sent[d] # <<>> => Fits(LastFrame(d), d)'
    BY <1>1, <1>2, <2>5 DEF OpenInv, Fits
  <2>7. OpenInv(d)'
    BY <1>2, <1>8, <2>1, <2>5, <2>6 DEF OpenInv
  <2>8. \A e \in Docs \ {d} : Same(e)
    BY <1>1, <1>8, <2>1 DEF Same
  <2> QED
    BY <2>3, <2>4, <2>7, <2>8, OneDocument DEF DocInv
<1>9. CASE End(d) /\ UNCHANGED <<last, sent>>
  <2>1. sent' = [sent EXCEPT ![d] = sent[d]] /\ last' = [last EXCEPT ![d] = last[d]]
    BY <1>4, <1>9
  <2> QED
    BY <1>1, <1>2, <1>3, <1>4, <1>5, <1>9, <2>1, EndStep
<1> QED
  BY <1>1, <1>6, <1>7, <1>8, <1>9

-----------------------------------------------------------------------------
(* The page.                                                               *)

(* A patch leaves the row something the page can show.                     *)
LEMMA Patched ==
  ASSUME TypeInv, NEW s \in Statuses \cup {"uploading", "error"}, Patch(s)
  PROVE  item' \in Statuses \cup {"absent", "uploading", "error", "dropped"}
BY DEF TypeInv, Patch

LEMMA UploadStep ==
  ASSUME IInv, NEW d \in Docs, Upload(d)
  PROVE  IInv'
<1>1. /\ TypeInv /\ DocInv(d) /\ post[d] = "none" /\ post' = [post EXCEPT ![d] = "sent"]
      /\ item' = "uploading" /\ UNCHANGED <<rowVars, streamVars, watching, got>>
  BY DEF IInv, Upload
<1>2. /\ post' \in [Docs -> {"none", "sent", "created", "over"}] /\ post'[d] = "sent"
      /\ \A e \in Docs \ {d} : post'[e] = post[e]
  BY <1>1 DEF TypeInv
<1>3. TypeInv'
  BY <1>1, <1>2 DEF TypeInv
<1>4. DocInv(d)'
  BY <1>1, <1>2 DEF DocInv, OrderInv, OpenInv
<1>5. \A e \in Docs \ {d} : Same(e)
  BY <1>1, <1>2 DEF Same
<1> QED
  BY <1>3, <1>4, <1>5, OneDocument

LEMMA ArriveStep ==
  ASSUME IInv, NEW d \in Docs, Arrive(d)
  PROVE  IInv'
<1>1. /\ TypeInv /\ DocInv(d) /\ post[d] = "sent" /\ post' = [post EXCEPT ![d] = "created"]
      /\ stage' = [stage EXCEPT ![d] = "UPLOADED"] /\ writes' = [writes EXCEPT ![d] = 1]
      /\ UNCHANGED <<streamVars, item, watching, got>>
  BY DEF IInv, Arrive, Lifecycle!Upload, Lifecycle!Move
<1>2. /\ post' \in [Docs -> {"none", "sent", "created", "over"}] /\ post'[d] = "created"
      /\ \A e \in Docs \ {d} : post'[e] = post[e]
  BY <1>1 DEF TypeInv
<1>3. /\ stage' \in [Docs -> Statuses \cup {"new", "deleted"}] /\ stage'[d] = "UPLOADED"
      /\ \A e \in Docs \ {d} : stage'[e] = stage[e]
  BY <1>1 DEF TypeInv, Statuses, InProgress
<1>4. /\ writes' \in [Docs -> 0..MaxWrites] /\ writes'[d] = 1
      /\ \A e \in Docs \ {d} : writes'[e] = writes[e]
  BY <1>1, ProgressBounds DEF TypeInv
<1>5. TypeInv'
  BY <1>1, <1>2, <1>3, <1>4 DEF TypeInv
<1>6. DocInv(d)'
  BY <1>1, <1>2, <1>3, <1>4 DEF DocInv, OrderInv, OpenInv
<1>7. \A e \in Docs \ {d} : Same(e)
  BY <1>1, <1>2, <1>3, <1>4 DEF Same
<1> QED
  BY <1>5, <1>6, <1>7, OneDocument

LEMMA UploadedStep ==
  ASSUME IInv, NEW d \in Docs, Uploaded(d)
  PROVE  IInv'
<1>1. /\ TypeInv /\ DocInv(d) /\ post[d] = "created" /\ post' = [post EXCEPT ![d] = "over"]
      /\ Patch("UPLOADED") /\ watching' = d /\ stream' = [stream EXCEPT ![d] = "check"]
      /\ UNCHANGED <<rowVars, deaf, reading, last, sent, got>>
  BY DEF IInv, Uploaded
<1>2. /\ post' \in [Docs -> {"none", "sent", "created", "over"}] /\ post'[d] = "over"
      /\ \A e \in Docs \ {d} : post'[e] = post[e]
  BY <1>1 DEF TypeInv
<1>3. /\ stream' \in [Docs -> {"none", "check", "open", "refused", "over"}] /\ stream'[d] = "check"
      /\ \A e \in Docs \ {d} : stream'[e] = stream[e]
  BY <1>1 DEF TypeInv
<1>4. /\ item' \in Statuses \cup {"absent", "uploading", "error", "dropped"}
      /\ watching' \in 0..MaxUploads
  BY <1>1, Patched, DocsAreNumbers DEF Statuses, InProgress
<1>5. TypeInv'
  BY <1>1, <1>2, <1>3, <1>4 DEF TypeInv
<1>6. DocInv(d)'
  BY <1>1, <1>2, <1>3 DEF DocInv, OrderInv, OpenInv
<1>7. \A e \in Docs \ {d} : Same(e)
  BY <1>1, <1>2, <1>3 DEF Same
<1> QED
  BY <1>5, <1>6, <1>7, OneDocument

LEMMA UploadFailsStep ==
  ASSUME IInv, NEW d \in Docs, UploadFails(d)
  PROVE  IInv'
<1>1. /\ TypeInv /\ DocInv(d) /\ post' = [post EXCEPT ![d] = "over"] /\ Patch("error")
      /\ UNCHANGED <<rowVars, streamVars, watching, got>>
  BY DEF IInv, UploadFails
<1>2. /\ post' \in [Docs -> {"none", "sent", "created", "over"}] /\ post'[d] = "over"
      /\ \A e \in Docs \ {d} : post'[e] = post[e]
  BY <1>1 DEF TypeInv
<1>3. TypeInv'
  BY <1>1, <1>2, Patched DEF TypeInv
<1>4. OrderInv(d)' /\ Told(sent[d])'
  BY <1>1, <1>2 DEF DocInv, OrderInv
<1>5. OpenInv(d)'
  BY <1>1 DEF DocInv, OpenInv, Fits, Precedes, LastFrame
<1>6. \A e \in Docs \ {d} : Same(e)
  BY <1>1, <1>2 DEF Same
<1> QED
  BY <1>3, <1>4, <1>5, <1>6, OneDocument DEF DocInv

(* The page takes a frame, or loses its stream.                            *)
LEMMA PageListens ==
  ASSUME IInv, Receive \/ StreamLost
  PROVE  IInv'
<1>1. TypeInv /\ UNCHANGED <<rowVars, streamVars, post>>
  BY DEF IInv, Receive, StreamLost
<1>2. ASSUME OnError
      PROVE  watching' = 0 /\ item' \in Statuses \cup {"absent", "uploading", "error", "dropped"}
  BY <1>1, <1>2, Patched DEF OnError, TypeInv
<1>3. /\ got' \in [Docs -> Nat] /\ \A e \in Docs : got'[e] <= Len(sent[e])
      /\ watching' \in 0..MaxUploads
      /\ item' \in Statuses \cup {"absent", "uploading", "error", "dropped"}
  <2>1. CASE Receive
    <3>1. PICK d : d = watching
      OBVIOUS
    <3>2. /\ d # 0 /\ got[d] < Len(sent[d]) /\ got' = [got EXCEPT ![d] = got[d] + 1]
          /\ \/ Incoming(d) \notin Ending /\ Patch(Incoming(d)) /\ UNCHANGED watching
             \/ Incoming(d) = "done" /\ watching' = 0 /\ item' = "dropped"
             \/ Incoming(d) = "timeout" /\ watching' = 0 /\ Patch("error")
             \/ Incoming(d) = "gone" /\ OnError
      BY <2>1, <3>1 DEF Receive
    <3>3. d \in Docs
      BY <1>1, <3>1, <3>2, ProgressBounds DEF TypeInv, Docs
    <3>4. sent[d] \in Seq(Frame) /\ got[d] \in Nat
      BY <1>1, <3>3 DEF TypeInv
    <3>5. Len(sent[d]) \in Nat /\ got[d] + 1 \in 1..Len(sent[d])
      BY <3>2, <3>4
    <3>6. sent[d][got[d] + 1] \in Frame
      BY <3>4, <3>5
    <3>7. Incoming(d) \notin Ending => Incoming(d) \in Statuses
      BY <3>6 DEF Incoming, Frame
    <3>8. got' \in [Docs -> Nat] /\ \A e \in Docs : got'[e] <= Len(sent[e])
      BY <1>1, <3>2, <3>3, <3>4, <3>5 DEF TypeInv
    <3>9. watching' \in 0..MaxUploads
      BY <1>1, <1>2, <3>2, ProgressBounds DEF TypeInv
    <3>10. item' \in Statuses \cup {"absent", "uploading", "error", "dropped"}
      BY <1>1, <1>2, <3>2, <3>7, Patched
    <3> QED
      BY <3>8, <3>9, <3>10
  <2>2. CASE StreamLost
    <3>1. OnError /\ UNCHANGED got
      BY <2>2 DEF StreamLost
    <3> QED
      BY <1>1, <1>2, <3>1, ProgressBounds DEF TypeInv
  <2> QED
    BY <2>1, <2>2
<1>4. TypeInv'
  BY <1>1, <1>3 DEF TypeInv
<1>5. ASSUME NEW e \in Docs PROVE DocInv(e)'
  BY <1>1, SameKeeps DEF IInv, Same
<1> QED
  BY <1>4, <1>5 DEF IInv

-----------------------------------------------------------------------------
(* The invariant holds.                                                    *)

LEMMA Start == Init => IInv
<1> SUFFICES ASSUME Init PROVE IInv
  OBVIOUS
<1>1. <<>> \in Seq(Frame) /\ Len(<<>>) = 0 /\ 0 \in 0..MaxWrites /\ 0 \in 0..MaxUploads
  BY ProgressBounds
<1>2. /\ stage = [d \in Docs |-> "new"] /\ writes = [d \in Docs |-> 0]
      /\ stream = [d \in Docs |-> "none"] /\ deaf = {} /\ reading = [d \in Docs |-> {}]
      /\ last = [d \in Docs |-> Blank] /\ sent = [d \in Docs |-> <<>>]
      /\ post = [d \in Docs |-> "none"] /\ item = "absent" /\ watching = 0
      /\ got = [d \in Docs |-> 0]
  BY Zenon DEF Init, Lifecycle!Init, Blank
<1>3. TypeInv
  BY <1>1, <1>2 DEF TypeInv, Known
<1>4. \A d \in Docs : DocInv(d)
  BY <1>1, <1>2 DEF DocInv, OrderInv, Told, OpenInv
<1> QED
  BY <1>3, <1>4 DEF IInv

LEMMA StepKeeps == IInv /\ [Next]_vars => IInv'
<1> SUFFICES ASSUME IInv, [Next]_vars PROVE IInv'
  OBVIOUS
<1>1. CASE UNCHANGED vars
  <2>1. ASSUME NEW d \in Docs PROVE DocInv(d)'
    BY <1>1, SameKeeps DEF IInv, Same, vars
  <2>2. TypeInv'
    BY <1>1 DEF IInv, TypeInv, vars
  <2> QED
    BY <2>1, <2>2 DEF IInv
<1>2. ASSUME NEW d \in Docs, RowChanges(d) \/ Handler(d) \/ Page(d) PROVE IInv'
  BY <1>2, RowStep, CheckStep, TickStep, AnswerStep, CapStep,
     UploadStep, ArriveStep, UploadedStep, UploadFailsStep DEF Handler, Page
<1> QED
  BY <1>1, <1>2, PageListens DEF Next

LEMMA Inductive == Spec => []IInv
BY Start, StepKeeps, PTL DEF Spec

(* Every variable keeps its type, however often a file is uploaded and a   *)
(* document's status changes; no two polls of a stream are in flight.      *)
THEOREM TypeCorrect == Spec => []TypeInv
<1>1. IInv => TypeInv
  BY DEF IInv
<1> QED
  BY <1>1, Inductive, PTL

(* GET /documents/:id/events tells the row's history forward: a poll is    *)
(* never younger than the row nor older than what was told last.           *)
THEOREM ToldForward == Spec => []StreamTellsHistory
<1>1. IInv => StreamTellsHistory
  BY DEF IInv, DocInv, Told, Follows, StreamTellsHistory
<1> QED
  BY <1>1, Inductive, PTL

(* A row of the upload list that shows progress has an upload on its way   *)
(* or a stream it watches, whatever the streams tell and when they break.  *)
THEOREM DrivenProgress == Spec => []ProgressIsDriven
<1>1. Init => ProgressIsDriven
  BY DEF Init, ProgressIsDriven, InProgress
<1>2. IInv /\ ProgressIsDriven /\ [Next]_vars => ProgressIsDriven'
  <2> SUFFICES ASSUME IInv, ProgressIsDriven, [Next]_vars,
                      item' \in InProgress \cup {"uploading"}
               PROVE  watching' # 0 \/ \E d \in Docs : post'[d] \in {"sent", "created"}
    BY DEF ProgressIsDriven
  <2> DEFINE Driven == watching # 0 \/ \E d \in Docs : post[d] \in {"sent", "created"}
  <2>1. post \in [Docs -> {"none", "sent", "created", "over"}]
    BY DEF IInv, TypeInv
  <2>2. ASSUME UNCHANGED <<item, watching, post>> PROVE Driven'
    BY <2>2 DEF ProgressIsDriven
  <2>3. ASSUME NEW d \in Docs, Page(d) PROVE Driven'
    <3>1. CASE Upload(d)
      BY <2>1, <3>1 DEF Upload
    <3>2. CASE Arrive(d)
      BY <2>1, <3>2 DEF Arrive
    <3>3. CASE Uploaded(d)
      BY <3>3, DocsAreNumbers DEF Uploaded
    <3>4. CASE UploadFails(d)
      BY <3>4 DEF UploadFails, Patch, InProgress
    <3> QED
      BY <2>3, <3>1, <3>2, <3>3, <3>4 DEF Page
  <2>4. ASSUME OnError PROVE FALSE
    BY <2>4 DEF OnError, Patch, InProgress, Settled
  <2>5. CASE Receive
    BY <2>4, <2>5 DEF Receive, Patch, InProgress
  <2>6. CASE StreamLost
    BY <2>4, <2>6 DEF StreamLost
  <2>7. ASSUME NEW d \in Docs, RowChanges(d) \/ Handler(d) PROVE Driven'
    BY <2>2, <2>7 DEF RowChanges, Handler, Check, Tick, Answer, MaxTimer, ReaderCloses
  <2>8. CASE UNCHANGED vars
    BY <2>2, <2>8 DEF vars
  <2> QED
    BY <2>3, <2>5, <2>6, <2>7, <2>8 DEF Next
<1> QED
  BY <1>1, <1>2, Inductive, PTL DEF Spec
=============================================================================
