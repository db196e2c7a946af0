----------------------------- MODULE ChatProofs -----------------------------
(***************************************************************************)
(* The invariants of ChatStream and ChatConversation, proved for every     *)
(* number of requests, length of answers and size of the response buffer.  *)
(***************************************************************************)
EXTENDS ChatConversation, TLAPS

USE DEF serverVars, clientVars

Running == {"load", "retrieve", "generate", "drain"}

LastSent(r) == sent[r][Len(sent[r])]

(* Nothing written to the stream of r arrives any more.                    *)
Mute(r) == closed[r] \/ ended[r] \/ socket[r] = "cut"

(* What the frames of a stream are, whoever ends it.                       *)
FramesInv(r) ==
  /\ \A i \in 1..Len(sent[r]) - 1 : sent[r][i] = "token"
  /\ sent[r] = <<>> \/ LastSent(r) = "token" \/ ended[r]
  /\ ended[r] /\ socket[r] = "open" => sent[r] # <<>> /\ LastSent(r) \in Terminal

(* How far the coroutine is and what it has armed.                         *)
StageInv(r) ==
  /\ closed[r] => ended[r] /\ ~timers[r]
  /\ aborted[r] => closed[r]
  /\ pc[r] \in {"none", "load", "over"} => ~timers[r]
  /\ pc[r] \in Running /\ ~closed[r] => ~ended[r]
  /\ pc[r] = "none" <=> socket[r] = "none"
  /\ pc[r] = "none" => ~ended[r] /\ got[r] = 0

(* How much has been written, and how much of it waits.                    *)
LengthInv(r) ==
  /\ ~ended[r] => Len(sent[r]) <= answer[r]
  /\ ~ended[r] /\ socket[r] # "cut" => Len(sent[r]) = answer[r]
  /\ pc[r] \in {"none", "load", "retrieve"} => answer[r] = 0
  /\ Len(sent[r]) > MaxTokens => LastSent(r) # "token" /\ Len(sent[r]) <= MaxTokens + 2
  /\ sent[r] # <<>> /\ LastSent(r) = "grounded" =>
       pc[r] = "over" /\ Len(sent[r]) - 1 = answer[r]
  /\ pc[r] = "generate" /\ ~ended[r] /\ socket[r] = "open" => Undelivered(r) < HighWater
  /\ ~ended[r] => Undelivered(r) <= HighWater
  /\ Undelivered(r) <= HighWater + 1

StreamInv(r) == FramesInv(r) /\ StageInv(r) /\ LengthInv(r)

-----------------------------------------------------------------------------
(* Writing frames.                                                         *)

LEMMA Written ==
  ASSUME ServerTypeOK, NEW r \in Requests, NEW frames \in Seq(Frames),
         SafeWrite(r, frames)
  PROVE  /\ sent' \in [Requests -> Seq(Frames)]
         /\ \A q \in Requests \ {r} : sent'[q] = sent[q]
         /\ Mute(r) => sent'[r] = sent[r]
         /\ ~Mute(r) => sent'[r] = sent[r] \o frames
         /\ \A q \in Requests : got[q] <= Len(sent'[q])
<1>1. sent[r] \in Seq(Frames) /\ sent[r] \o frames \in Seq(Frames)
      /\ Len(sent[r] \o frames) = Len(sent[r]) + Len(frames)
  BY DEF ServerTypeOK
<1>2. sent' = [sent EXCEPT ![r] = IF Mute(r) THEN sent[r] ELSE sent[r] \o frames]
  BY DEF SafeWrite, Mute, ServerTypeOK
<1>3. /\ sent' \in [Requests -> Seq(Frames)]
      /\ \A q \in Requests \ {r} : sent'[q] = sent[q]
      /\ sent'[r] = IF Mute(r) THEN sent[r] ELSE sent[r] \o frames
  BY <1>1, <1>2 DEF ServerTypeOK
<1>4. ASSUME NEW q \in Requests PROVE got[q] <= Len(sent'[q])
  <2>1. got[q] \in Nat /\ got[q] <= Len(sent[q]) /\ sent[q] \in Seq(Frames)
    BY DEF ServerTypeOK
  <2>2. CASE q = r
    BY <1>1, <1>3, <2>1, <2>2
  <2>3. CASE q # r
    BY <1>3, <2>1, <2>3
  <2> QED
    BY <2>2, <2>3
<1> QED
  BY <1>3, <1>4

LEMMA Sequences ==
  /\ <<"token">> \in Seq(Frames) /\ <<"token", "ungrounded">> \in Seq(Frames)
  /\ \A f \in Terminal : <<f>> \in Seq(Frames)
BY DEF Frames, Terminal

(* Frames appended to a stream of tokens.                                  *)
LEMMA Appended ==
  ASSUME NEW s \in Seq(Frames), NEW f \in Frames
  PROVE  LET t == s \o <<f>> IN
         /\ Len(t) = Len(s) + 1 /\ t # <<>> /\ t[Len(t)] = f
         /\ \A i \in 1..Len(s) : t[i] = s[i]
OBVIOUS

(* The other requests of a handler's step.                                 *)
Same(r) ==
  /\ pc'[r] = pc[r] /\ closed'[r] = closed[r] /\ timers'[r] = timers[r]
  /\ aborted'[r] = aborted[r] /\ ended'[r] = ended[r] /\ socket'[r] = socket[r]
  /\ sent'[r] = sent[r] /\ got'[r] = got[r] /\ answer'[r] = answer[r]

LEMMA SameKeeps ==
  ASSUME NEW r \in Requests, StreamInv(r), Same(r)
  PROVE  StreamInv(r)'
BY DEF StreamInv, FramesInv, StageInv, LengthInv, Same, Undelivered, LastSent

-----------------------------------------------------------------------------
(* What each step of a handler does to the variables of its request.       *)

LEMMA EndShape ==
  ASSUME ServerTypeOK, NEW r \in Requests, End(r)
  PROVE  /\ closed' \in [Requests -> BOOLEAN] /\ timers' \in [Requests -> BOOLEAN]
         /\ ended' \in [Requests -> BOOLEAN]
         /\ \A q \in Requests \ {r} :
              closed'[q] = closed[q] /\ timers'[q] = timers[q] /\ ended'[q] = ended[q]
         /\ closed'[r] /\ ended'[r] /\ (timers'[r] <=> timers[r] /\ closed[r])
BY DEF ServerTypeOK, End

LEMMA AwaitShape ==
  ASSUME ServerTypeOK, NEW r \in Requests, NEW s \in Awaits, Await(r, s)
  PROVE  /\ pc' \in [Requests -> Awaits] /\ pc'[r] = s
         /\ \A q \in Requests \ {r} : pc'[q] = pc[q]
BY DEF ServerTypeOK, Await

(* The last frames of a stream, whoever writes them.                       *)
Lasts(r, frames) ==
  \/ \E f \in Terminal : frames = <<f>> /\ (f = "grounded" => pc'[r] = "over")
  \/ frames = <<"token", "ungrounded">> /\ pc[r] = "retrieve"

LEMMA LastWritten ==
  ASSUME ServerTypeOK, NEW r \in Requests, StreamInv(r), ~closed[r], ~ended[r],
         NEW frames \in Seq(Frames), SafeWrite(r, frames), Lasts(r, frames),
         ended'[r], socket'[r] \in {socket[r], "cut"}, got'[r] = got[r],
         answer'[r] = answer[r], pc'[r] \in {pc[r], "over"}
  PROVE  FramesInv(r)' /\ LengthInv(r)'
<1> USE DEF ServerTypeOK
<1>1. /\ Mute(r) => sent'[r] = sent[r]
      /\ ~Mute(r) => sent'[r] = sent[r] \o frames
      /\ Mute(r) <=> socket[r] = "cut"
  BY Written DEF Mute
<1>2. CASE socket[r] = "cut"
  <2>1. sent'[r] = sent[r] /\ socket'[r] = "cut"
    BY <1>1, <1>2
  <2>2. Undelivered(r)' = Undelivered(r)
    BY <2>1 DEF Undelivered
  <2>3. LastSent(r)' = LastSent(r)
    BY <2>1 DEF LastSent
  <2> HIDE DEF Undelivered, LastSent
  <2>4. FramesInv(r)'
    BY <2>1, <2>3 DEF StreamInv, FramesInv
  <2> QED
    BY <2>1, <2>2, <2>3, <2>4 DEF StreamInv, LengthInv
<1>3. ASSUME socket[r] # "cut", NEW f \in Terminal, frames = <<f>>,
             f = "grounded" => pc'[r] = "over"
      PROVE  FramesInv(r)' /\ LengthInv(r)'
  <2>0. /\ f \in Frames /\ sent[r] \in Seq(Frames)
        /\ sent[r] = <<>> \/ sent[r][Len(sent[r])] = "token"
        /\ \A i \in 1..Len(sent[r]) - 1 : sent[r][i] = "token"
    BY DEF StreamInv, FramesInv, LastSent, Frames
  <2>1. /\ sent'[r] = sent[r] \o <<f>> /\ f \in Frames /\ sent[r] \in Seq(Frames)
        /\ \A i \in 1..Len(sent[r]) : sent[r][i] = "token"
        /\ Len(sent[r]) = answer[r] /\ answer[r] \in 0..MaxTokens
    BY <1>1, <1>3, <2>0 DEF StreamInv, LengthInv
  <2>2. /\ Len(sent'[r]) = Len(sent[r]) + 1 /\ sent'[r] # <<>>
        /\ sent'[r][Len(sent'[r])] = f
        /\ \A i \in 1..Len(sent[r]) : sent'[r][i] = sent[r][i]
    BY <2>1, Appended
  <2>3. \A i \in 1..Len(sent'[r]) - 1 : sent'[r][i] = "token"
    BY <2>1, <2>2
  <2>4. FramesInv(r)'
    BY <2>2, <2>3, <1>3 DEF FramesInv, LastSent
  <2>5. LengthInv(r)'
    BY <2>1, <2>2, <1>3, StreamBounds
       DEF StreamInv, LengthInv, LastSent, Undelivered, Terminal
  <2> QED
    BY <2>4, <2>5
<1>4. ASSUME socket[r] # "cut", frames = <<"token", "ungrounded">>, pc[r] = "retrieve"
      PROVE  FramesInv(r)' /\ LengthInv(r)'
  <2>1. sent[r] = <<>> /\ got[r] = 0
    BY <1>4 DEF StreamInv, LengthInv
  <2>2. sent'[r] = <<"token", "ungrounded">>
    BY <1>1, <1>4, <2>1
  <2>3. Len(sent'[r]) = 2 /\ sent'[r][1] = "token" /\ sent'[r][2] = "ungrounded"
    BY <2>2
  <2>4. FramesInv(r)'
    BY <2>2, <2>3 DEF FramesInv, LastSent, Terminal
  <2>5. LengthInv(r)'
    BY <2>1, <2>2, <2>3, <1>4, StreamBounds
       DEF StreamInv, LengthInv, LastSent, Undelivered
  <2> QED
    BY <2>4, <2>5
<1> QED
  BY <1>2, <1>3, <1>4 DEF Lasts

(* What a step of request r, other than its reader's, keeps.               *)
Kept(r) ==
  /\ ServerTypeOK' /\ StreamInv(r)'
  /\ \A q \in Requests \ {r} : Same(q)
  /\ got' = got
  /\ pc[r] = "over" => pc'[r] = "over" /\ answer'[r] = answer[r]

(* A step of the coroutine that writes its last frames and ends.           *)
LEMMA FinishKeeps ==
  ASSUME ServerTypeOK, NEW r \in Requests, StreamInv(r), pc[r] \in Running,
         UNCHANGED <<aborted, socket, got>>,
         \/ \E f \in Terminal : Finish(r, <<f>>)
         \/ Finish(r, <<"token", "ungrounded">>) /\ pc[r] = "retrieve"
  PROVE  Kept(r)
<1> PICK frames \in Seq(Frames) : Finish(r, frames) /\ Lasts(r, frames)
  <2>1. pc'[r] = "over"
    BY AwaitShape DEF Finish, Awaits
  <2> QED
    BY <2>1, Sequences DEF Lasts
<1> USE DEF ServerTypeOK
<1>1. SafeWrite(r, frames) /\ End(r) /\ Await(r, "over") /\ ~closed[r]
      /\ UNCHANGED <<answer, aborted, socket, got>>
  BY DEF Finish
<1>2. /\ sent' \in [Requests -> Seq(Frames)]
      /\ \A q \in Requests \ {r} : sent'[q] = sent[q]
      /\ Mute(r) => sent'[r] = sent[r]
      /\ ~Mute(r) => sent'[r] = sent[r] \o frames
      /\ \A q \in Requests : got[q] <= Len(sent'[q])
  BY <1>1, Written
<1>3. /\ closed' \in [Requests -> BOOLEAN] /\ timers' \in [Requests -> BOOLEAN]
      /\ ended' \in [Requests -> BOOLEAN]
      /\ \A q \in Requests \ {r} :
           closed'[q] = closed[q] /\ timers'[q] = timers[q] /\ ended'[q] = ended[q]
      /\ closed'[r] /\ ended'[r] /\ ~timers'[r]
  BY <1>1, EndShape
<1>4. /\ pc' \in [Requests -> Awaits] /\ pc'[r] = "over"
      /\ \A q \in Requests \ {r} : pc'[q] = pc[q]
  BY <1>1, AwaitShape DEF Awaits
<1>5. ServerTypeOK'
  BY <1>1, <1>2, <1>3, <1>4
<1>6. \A q \in Requests \ {r} : Same(q)
  BY <1>1, <1>2, <1>3, <1>4 DEF Same
<1>7. ~ended[r]
  BY <1>1 DEF StreamInv, StageInv
<1>8. StageInv(r)'
  BY <1>3, <1>4, <1>1, <1>7 DEF StreamInv, StageInv, Running
<1>9. FramesInv(r)' /\ LengthInv(r)'
  BY <1>1, <1>3, <1>4, <1>7, LastWritten
<1> QED
  BY <1>1, <1>4, <1>5, <1>6, <1>8, <1>9 DEF StreamInv, Kept

(* A coroutine that finds its stream closed returns.                       *)
LEMMA ReturnKeeps ==
  ASSUME ServerTypeOK, NEW r \in Requests, StreamInv(r), pc[r] \in Running,
         ReturnIfClosed(r), UNCHANGED <<aborted, socket, got>>
  PROVE  Kept(r)
<1>1. /\ pc' \in [Requests -> Awaits] /\ pc'[r] = "over"
      /\ \A q \in Requests \ {r} : pc'[q] = pc[q]
  BY AwaitShape DEF ReturnIfClosed, Awaits
<1>2. UNCHANGED <<closed, timers, ended, sent, answer, aborted, socket, got>> /\ closed[r]
  BY DEF ReturnIfClosed
<1>3. StreamInv(r)'
  BY <1>1, <1>2
     DEF StreamInv, FramesInv, StageInv, LengthInv, Undelivered, LastSent, Running
<1> QED
  BY <1>1, <1>2, <1>3 DEF Kept, ServerTypeOK, Same

(* A coroutine goes on to its next await and writes nothing.               *)
LEMMA AdvanceKeeps ==
  ASSUME ServerTypeOK, NEW r \in Requests, StreamInv(r), ~closed[r],
         UNCHANGED <<closed, aborted, ended, socket, sent, got, answer>>,
         \/ pc[r] = "load" /\ Await(r, "retrieve") /\ timers' = [timers EXCEPT ![r] = TRUE]
         \/ pc[r] = "retrieve" /\ Await(r, "generate") /\ UNCHANGED timers
  PROVE  Kept(r)
<1> USE DEF ServerTypeOK
<1>1. /\ pc' \in [Requests -> Awaits] /\ pc'[r] \in {"retrieve", "generate"}
      /\ pc[r] \in {"load", "retrieve"}
      /\ pc'[r] = "retrieve" => pc[r] = "load"
      /\ \A q \in Requests \ {r} : pc'[q] = pc[q]
      /\ timers' \in [Requests -> BOOLEAN]
      /\ \A q \in Requests \ {r} : timers'[q] = timers[q]
  BY AwaitShape DEF Awaits
<1>2. ~ended[r] /\ Len(sent[r]) \in Nat /\ got[r] \in Nat
  BY <1>1 DEF StreamInv, StageInv, Running
<1>3. StreamInv(r)'
  BY <1>1, <1>2, StreamBounds
     DEF StreamInv, FramesInv, StageInv, LengthInv, Undelivered, LastSent, Running
<1> QED
  BY <1>1, <1>3 DEF Kept, Same

LEMMA LoadKeeps ==
  ASSUME ServerTypeOK, NEW r \in Requests, StreamInv(r), Load(r)
  PROVE  Kept(r)
<1> USE DEF Load, Running
<1>1. CASE ReturnIfClosed(r)
  BY <1>1, ReturnKeeps
<1>2. CASE /\ ~closed[r]
           /\ timers' = [timers EXCEPT ![r] = TRUE]
           /\ Await(r, "retrieve")
           /\ UNCHANGED <<closed, ended, sent, answer>>
  BY <1>2, AdvanceKeeps
<1>3. CASE /\ ~closed[r]
           /\ SafeWrite(r, <<"rejected">>)
           /\ ended' = [ended EXCEPT ![r] = TRUE]
           /\ Await(r, "over")
           /\ UNCHANGED <<closed, timers, answer>>
  <2>1. /\ pc' \in [Requests -> Awaits] /\ pc'[r] = "over"
        /\ \A q \in Requests \ {r} : pc'[q] = pc[q]
    BY <1>3, AwaitShape DEF Awaits
  <2>2. /\ ended' \in [Requests -> BOOLEAN] /\ ended'[r]
        /\ \A q \in Requests \ {r} : ended'[q] = ended[q]
        /\ ~ended[r] /\ ~timers[r]
    BY <1>3 DEF ServerTypeOK, StreamInv, StageInv
  <2>3. /\ sent' \in [Requests -> Seq(Frames)]
        /\ \A q \in Requests \ {r} : sent'[q] = sent[q]
        /\ \A q \in Requests : got[q] <= Len(sent'[q])
    BY <1>3, Sequences, Written DEF Terminal
  <2>4. FramesInv(r)' /\ LengthInv(r)'
    BY <1>3, <2>1, <2>2, Sequences, LastWritten DEF Terminal, Lasts
  <2>5. StageInv(r)'
    BY <1>3, <2>1, <2>2 DEF StreamInv, StageInv
  <2>6. ServerTypeOK' /\ \A q \in Requests \ {r} : Same(q)
    BY <1>3, <2>1, <2>2, <2>3 DEF ServerTypeOK, Same
  <2> QED
    BY <1>3, <2>1, <2>4, <2>5, <2>6 DEF StreamInv, Kept
<1>4. CASE Finish(r, <<"rejected">>)
  BY <1>4, FinishKeeps DEF Terminal
<1> QED
  BY <1>1, <1>2, <1>3, <1>4

LEMMA RetrieveKeeps ==
  ASSUME ServerTypeOK, NEW r \in Requests, StreamInv(r), Retrieve(r)
  PROVE  Kept(r)
<1> USE DEF Retrieve, Running
<1>1. CASE ReturnIfClosed(r)
  BY <1>1, ReturnKeeps
<1>2. CASE /\ ~closed[r]
           /\ Await(r, "generate")
           /\ UNCHANGED <<closed, timers, ended, sent, answer>>
  BY <1>2, AdvanceKeeps
<1>3. CASE Finish(r, <<"token", "ungrounded">>)
  BY <1>3, FinishKeeps
<1>4. CASE Finish(r, <<"error">>)
  BY <1>4, FinishKeeps DEF Terminal
<1> QED
  BY <1>1, <1>2, <1>3, <1>4

LEMMA GenerateKeeps ==
  ASSUME ServerTypeOK, NEW r \in Requests, StreamInv(r), Generate(r)
  PROVE  Kept(r)
<1> USE DEF Generate, Running
<1>1. CASE ReturnIfClosed(r)
  BY <1>1, ReturnKeeps
<1>2. CASE Text(r)
  <2>1. /\ UNCHANGED <<closed, timers, aborted, ended, socket, got>>
        /\ ~closed[r] /\ ~aborted[r] /\ ~ended[r]
        /\ answer' = [answer EXCEPT ![r] = @ + 1] /\ answer[r] < MaxTokens
    BY <1>2 DEF Text, StreamInv, StageInv
  <2>2. /\ pc' \in [Requests -> Awaits]
        /\ pc'[r] = IF WriteRefused(r) THEN "drain" ELSE "generate"
        /\ \A q \in Requests \ {r} : pc'[q] = pc[q]
    BY <1>2, <2>1, AwaitShape DEF Text, Awaits
  <2>3. /\ sent' \in [Requests -> Seq(Frames)]
        /\ \A q \in Requests \ {r} : sent'[q] = sent[q]
        /\ \A q \in Requests : got[q] <= Len(sent'[q])
        /\ sent'[r] = IF socket[r] = "cut" THEN sent[r] ELSE sent[r] \o <<"token">>
    BY <1>2, <2>1, Sequences, Written DEF Text, Mute
  <2>4. ServerTypeOK' /\ \A q \in Requests \ {r} : Same(q)
    <3>1. /\ answer' \in [Requests -> 0..MaxTokens]
          /\ \A q \in Requests \ {r} : answer'[q] = answer[q]
      BY <2>1, StreamBounds DEF ServerTypeOK
    <3> QED
      BY <2>1, <2>2, <2>3, <3>1 DEF ServerTypeOK, Same
  <2>5. StageInv(r)'
    BY <2>1, <2>2 DEF StreamInv, StageInv
  <2>6. /\ \A i \in 1..Len(sent[r]) - 1 : sent[r][i] = "token"
        /\ sent[r] = <<>> \/ LastSent(r) = "token"
        /\ Len(sent[r]) <= answer[r] /\ (socket[r] # "cut" => Len(sent[r]) = answer[r])
        /\ socket[r] = "open" => Undelivered(r) < HighWater
        /\ Undelivered(r) <= HighWater
    BY <2>1 DEF StreamInv, FramesInv, LengthInv
  <2>7. /\ sent[r] \in Seq(Frames) /\ Len(sent[r]) \in Nat
        /\ answer[r] \in 0..MaxTokens /\ got[r] \in Nat
        /\ answer'[r] = answer[r] + 1
        /\ socket[r] # "cut" => socket[r] = "open"
    BY <2>1 DEF StreamInv, StageInv, ServerTypeOK
  <2>8. FramesInv(r)' /\ LengthInv(r)'
    <3>1. CASE socket[r] = "cut"
      <4>1. sent'[r] = sent[r]
        BY <2>3, <3>1
      <4>2. FramesInv(r)'
        BY <2>1, <2>6, <3>1, <4>1 DEF FramesInv, LastSent
      <4>3. LengthInv(r)'
        <5>1. /\ LastSent(r)' = LastSent(r) /\ Undelivered(r)' = Undelivered(r)
              /\ ~ended'[r] /\ socket'[r] = "cut" /\ pc'[r] \in {"drain", "generate"}
              /\ Undelivered(r) \in Int
          BY <2>1, <2>2, <2>7, <3>1, <4>1 DEF LastSent, Undelivered
        <5> HIDE DEF LastSent, Undelivered
        <5> QED
          BY <2>6, <2>7, <4>1, <5>1, StreamBounds DEF LengthInv
      <4> QED
        BY <4>2, <4>3
    <3>2. CASE socket[r] = "open"
      <4>1. /\ sent'[r] = sent[r] \o <<"token">>
            /\ \A i \in 1..Len(sent[r]) : sent[r][i] = "token"
        <5>1. sent'[r] = sent[r] \o <<"token">>
          BY <2>3, <3>2
        <5>2. sent[r] = <<>> \/ sent[r][Len(sent[r])] = "token"
          BY <2>6 DEF LastSent
        <5>3. \A i \in 1..Len(sent[r]) : sent[r][i] = "token"
          BY <2>6, <2>7, <5>2
        <5> QED
          BY <5>1, <5>3
      <4>2. /\ Len(sent'[r]) = Len(sent[r]) + 1 /\ sent'[r] # <<>>
            /\ sent'[r][Len(sent'[r])] = "token"
            /\ \A i \in 1..Len(sent[r]) : sent'[r][i] = sent[r][i]
        BY <2>7, <4>1, Appended DEF Frames
      <4>3. \A i \in 1..Len(sent'[r]) - 1 : sent'[r][i] = "token"
        BY <2>7, <4>1, <4>2
      <4>4. FramesInv(r)'
        BY <2>1, <4>2, <4>3 DEF FramesInv, LastSent
      <4>5. LengthInv(r)'
        <5>1. /\ Undelivered(r)' = Undelivered(r) + 1
              /\ Undelivered(r) \in Int /\ Undelivered(r) < HighWater
          BY <2>1, <2>6, <2>7, <3>2, <4>2 DEF Undelivered
        <5>2. /\ LastSent(r)' = "token" /\ Len(sent'[r]) = answer'[r]
              /\ answer'[r] \in 0..MaxTokens
          BY <2>1, <2>6, <2>7, <3>2, <4>2, StreamBounds DEF LastSent
        <5>3. /\ pc'[r] \in {"drain", "generate"}
              /\ pc'[r] = "generate" => Undelivered(r) + 1 < HighWater
          BY <2>2, <3>2, <5>1, StreamBounds DEF WriteRefused
        <5> HIDE DEF Undelivered, LastSent
        <5> QED
          BY <5>1, <5>2, <5>3, StreamBounds DEF LengthInv
      <4> QED
        BY <4>4, <4>5
    <3> QED
      BY <2>7, <3>1, <3>2
  <2> QED
    BY <2>1, <2>2, <2>4, <2>5, <2>8 DEF StreamInv, Kept
<1>3. CASE Finish(r, <<"error">>)
  BY <1>3, FinishKeeps DEF Terminal
<1>4. CASE Finish(r, <<"ungrounded">>)
  BY <1>4, FinishKeeps DEF Terminal
<1>5. CASE Finish(r, <<"grounded">>)
  BY <1>5, FinishKeeps DEF Terminal
<1> QED
  BY <1>1, <1>2, <1>3, <1>4, <1>5

-----------------------------------------------------------------------------
(* The callbacks: a flushed buffer, the timer, a closing connection.       *)

LEMMA DrainedKeeps ==
  ASSUME ServerTypeOK, NEW r \in Requests, StreamInv(r), Drained(r)
  PROVE  Kept(r)
<1>1. /\ pc' \in [Requests -> Awaits] /\ pc'[r] = "generate" /\ pc[r] = "drain"
      /\ \A q \in Requests \ {r} : pc'[q] = pc[q]
      /\ UNCHANGED <<closed, timers, aborted, ended, socket, sent, got, answer>>
      /\ Undelivered(r) = 0
  BY AwaitShape DEF Drained, Awaits
<1>2. StreamInv(r)'
  BY <1>1, StreamBounds
     DEF StreamInv, FramesInv, StageInv, LengthInv, LastSent, Undelivered, Running
<1> QED
  BY <1>1, <1>2 DEF Kept, ServerTypeOK, Same

(* What an abort does to the coroutine.                                    *)
LEMMA WakeShape ==
  ASSUME ServerTypeOK, NEW r \in Requests, AbortWakes(r)
  PROVE  /\ pc' \in [Requests -> Awaits]
         /\ \A q \in Requests \ {r} : pc'[q] = pc[q]
         /\ pc'[r] \in {pc[r], "over"}
         /\ pc[r] \in {"none", "load", "retrieve", "generate"} => pc'[r] = pc[r]
BY DEF ServerTypeOK, AbortWakes, Await, Awaits

LEMMA TimeoutKeeps ==
  ASSUME ServerTypeOK, NEW r \in Requests, StreamInv(r), Timeout(r)
  PROVE  Kept(r)
<1>1. /\ timers[r] /\ SafeWrite(r, <<"error">>) /\ End(r) /\ AbortWakes(r)
      /\ aborted' = [aborted EXCEPT ![r] = TRUE]
      /\ socket' = [socket EXCEPT ![r] = "cut"]
      /\ UNCHANGED <<got, answer>>
  BY DEF Timeout
<1>2. ~closed[r] /\ ~ended[r] /\ pc[r] \in Running
  BY <1>1 DEF StreamInv, StageInv, Running, ServerTypeOK, Awaits
<1>3. /\ pc' \in [Requests -> Awaits]
      /\ \A q \in Requests \ {r} : pc'[q] = pc[q]
      /\ pc'[r] \in {pc[r], "over"}
  BY <1>1, WakeShape
<1>4. /\ closed' \in [Requests -> BOOLEAN] /\ timers' \in [Requests -> BOOLEAN]
      /\ ended' \in [Requests -> BOOLEAN]
      /\ \A q \in Requests \ {r} :
           closed'[q] = closed[q] /\ timers'[q] = timers[q] /\ ended'[q] = ended[q]
      /\ closed'[r] /\ ended'[r] /\ ~timers'[r]
  BY <1>1, <1>2, EndShape
<1>5. /\ aborted' \in [Requests -> BOOLEAN] /\ socket'[r] = "cut"
      /\ socket' \in [Requests -> {"none", "open", "cut"}]
      /\ \A q \in Requests \ {r} : aborted'[q] = aborted[q] /\ socket'[q] = socket[q]
  BY <1>1 DEF ServerTypeOK
<1>6. /\ sent' \in [Requests -> Seq(Frames)]
      /\ \A q \in Requests \ {r} : sent'[q] = sent[q]
      /\ \A q \in Requests : got[q] <= Len(sent'[q])
  BY <1>1, Sequences, Written DEF Terminal
<1>7. ServerTypeOK' /\ \A q \in Requests \ {r} : Same(q)
  BY <1>1, <1>3, <1>4, <1>5, <1>6 DEF ServerTypeOK, Same
<1>8. FramesInv(r)' /\ LengthInv(r)'
  BY <1>1, <1>2, <1>3, <1>4, <1>5, Sequences, LastWritten DEF Terminal, Lasts
<1>9. StageInv(r)'
  BY <1>2, <1>3, <1>4, <1>5 DEF StageInv, Running
<1> QED
  BY <1>1, <1>2, <1>7, <1>8, <1>9 DEF StreamInv, Kept, Running

LEMMA DisconnectKeeps ==
  ASSUME ServerTypeOK, NEW r \in Requests, StreamInv(r),
         DisconnectHeard(r) \/ DisconnectUnheard(r)
  PROVE  Kept(r)
<1>1. CASE DisconnectHeard(r)
  <2>1. /\ socket[r] = "open" /\ End(r) /\ AbortWakes(r)
        /\ aborted' = [aborted EXCEPT ![r] = TRUE]
        /\ socket' = [socket EXCEPT ![r] = "cut"]
        /\ UNCHANGED <<sent, got, answer>>
    BY <1>1 DEF DisconnectHeard
  <2>2. /\ pc' \in [Requests -> Awaits]
        /\ \A q \in Requests \ {r} : pc'[q] = pc[q]
        /\ pc'[r] \in {pc[r], "over"} /\ pc[r] # "none"
    BY <2>1, WakeShape DEF StreamInv, StageInv
  <2>3. /\ closed' \in [Requests -> BOOLEAN] /\ timers' \in [Requests -> BOOLEAN]
        /\ ended' \in [Requests -> BOOLEAN]
        /\ \A q \in Requests \ {r} :
             closed'[q] = closed[q] /\ timers'[q] = timers[q] /\ ended'[q] = ended[q]
        /\ closed'[r] /\ ended'[r] /\ ~timers'[r]
    BY <2>1, EndShape DEF StreamInv, StageInv
  <2>4. /\ aborted' \in [Requests -> BOOLEAN] /\ socket'[r] = "cut"
        /\ socket' \in [Requests -> {"none", "open", "cut"}]
        /\ \A q \in Requests \ {r} : aborted'[q] = aborted[q] /\ socket'[q] = socket[q]
    BY <2>1 DEF ServerTypeOK
  <2>5. ServerTypeOK' /\ \A q \in Requests \ {r} : Same(q)
    BY <2>1, <2>2, <2>3, <2>4 DEF ServerTypeOK, Same
  <2>6. StageInv(r)'
    BY <2>2, <2>3, <2>4 DEF StageInv
  <2>7. FramesInv(r)' /\ LengthInv(r)'
    BY <2>1, <2>2, <2>3, <2>4
       DEF StreamInv, FramesInv, LengthInv, LastSent, Undelivered
  <2> QED
    BY <2>1, <2>2, <2>5, <2>6, <2>7 DEF StreamInv, Kept
<1>2. CASE DisconnectUnheard(r)
  <2>1. /\ socket[r] = "open" /\ socket' = [socket EXCEPT ![r] = "cut"]
        /\ UNCHANGED <<closed, timers, aborted, ended, sent, got, answer>>
    BY <1>2 DEF DisconnectUnheard
  <2>2. /\ pc' \in [Requests -> Awaits]
        /\ \A q \in Requests \ {r} : pc'[q] = pc[q]
        /\ pc'[r] = pc[r] \/ (pc[r] = "drain" /\ pc'[r] = "generate")
        /\ pc[r] # "none"
    <3>1. pc' = [pc EXCEPT ![r] = IF pc[r] = "drain" THEN "generate" ELSE pc[r]]
      BY <1>2 DEF DisconnectUnheard, Await
    <3>2. pc[r] # "none"
      BY <2>1 DEF StreamInv, StageInv
    <3>3. pc' \in [Requests -> Awaits] /\ \A q \in Requests \ {r} : pc'[q] = pc[q]
      BY <3>1 DEF ServerTypeOK, Awaits
    <3>4. pc'[r] = IF pc[r] = "drain" THEN "generate" ELSE pc[r]
      BY <3>1 DEF ServerTypeOK
    <3> QED
      BY <3>2, <3>3, <3>4
  <2>3. /\ socket' \in [Requests -> {"none", "open", "cut"}] /\ socket'[r] = "cut"
        /\ \A q \in Requests \ {r} : socket'[q] = socket[q]
    BY <2>1 DEF ServerTypeOK
  <2>4. ServerTypeOK' /\ \A q \in Requests \ {r} : Same(q)
    BY <2>1, <2>2, <2>3 DEF ServerTypeOK, Same
  <2>5. StageInv(r)'
    BY <2>1, <2>2, <2>3 DEF StreamInv, StageInv, Running
  <2>6. FramesInv(r)' /\ LengthInv(r)'
    BY <2>1, <2>2, <2>3 DEF StreamInv, FramesInv, LengthInv, LastSent, Undelivered
  <2> QED
    BY <2>1, <2>2, <2>4, <2>5, <2>6 DEF StreamInv, Kept
<1> QED
  BY <1>1, <1>2

LEMMA HandlerKeeps ==
  ASSUME ServerTypeOK, NEW r \in Requests, StreamInv(r), Handler(r)
  PROVE  Kept(r)
BY LoadKeeps, RetrieveKeeps, GenerateKeeps, DrainedKeeps, TimeoutKeeps, DisconnectKeeps
   DEF Handler

-----------------------------------------------------------------------------
(* The request itself, and its reader.                                     *)

LEMMA PostKeeps ==
  ASSUME ServerTypeOK, NEW r \in Requests, StreamInv(r), Post(r)
  PROVE  Kept(r) /\ pc[r] = "none" /\ pc'[r] # "none"
<1>1. /\ pc[r] = "none" /\ socket' = [socket EXCEPT ![r] = "open"]
      /\ UNCHANGED <<closed, timers, aborted, got, answer>>
      /\ ~ended[r] /\ ~timers[r] /\ ~closed[r] /\ ~aborted[r]
      /\ got[r] = 0 /\ answer[r] = 0 /\ sent[r] = <<>>
  BY DEF Post, ServerTypeOK, StreamInv, StageInv, LengthInv
<1>2. /\ socket' \in [Requests -> {"none", "open", "cut"}] /\ socket'[r] = "open"
      /\ \A q \in Requests \ {r} : socket'[q] = socket[q]
  BY <1>1 DEF ServerTypeOK
<1>3. CASE Await(r, "load") /\ UNCHANGED <<ended, sent>>
  <2>1. /\ pc' \in [Requests -> Awaits] /\ pc'[r] = "load"
        /\ \A q \in Requests \ {r} : pc'[q] = pc[q]
    BY <1>3, AwaitShape DEF Awaits
  <2>2. StreamInv(r)'
    BY <1>1, <1>2, <1>3, <2>1, StreamBounds
       DEF StreamInv, FramesInv, StageInv, LengthInv, LastSent, Undelivered, Running
  <2> QED
    BY <1>1, <1>2, <1>3, <2>1, <2>2 DEF Kept, ServerTypeOK, Same
<1>4. CASE /\ Await(r, "over")
           /\ ended' = [ended EXCEPT ![r] = TRUE]
           /\ sent' = [sent EXCEPT ![r] = <<"rejected">>]
  <2>1. /\ pc' \in [Requests -> Awaits] /\ pc'[r] = "over"
        /\ \A q \in Requests \ {r} : pc'[q] = pc[q]
    BY <1>4, AwaitShape DEF Awaits
  <2>2. /\ ended' \in [Requests -> BOOLEAN] /\ ended'[r]
        /\ \A q \in Requests \ {r} : ended'[q] = ended[q]
    BY <1>4 DEF ServerTypeOK
  <2>3. /\ sent' \in [Requests -> Seq(Frames)] /\ sent'[r] = <<"rejected">>
        /\ \A q \in Requests \ {r} : sent'[q] = sent[q]
        /\ Len(sent'[r]) = 1 /\ sent'[r][1] = "rejected"
    BY <1>4, Sequences DEF ServerTypeOK, Terminal
  <2>4. StageInv(r)'
    BY <1>1, <1>2, <2>1, <2>2 DEF StageInv, Running
  <2>5. FramesInv(r)' /\ LengthInv(r)'
    BY <1>1, <1>2, <2>1, <2>2, <2>3, StreamBounds
       DEF FramesInv, LengthInv, LastSent, Undelivered, Terminal
  <2>6. ASSUME NEW q \in Requests PROVE got'[q] <= Len(sent'[q])
    <3>1. CASE q = r
      BY <1>1, <2>3, <3>1
    <3>2. CASE q # r
      BY <1>1, <2>3, <3>2 DEF ServerTypeOK
    <3> QED
      BY <3>1, <3>2
  <2> QED
    BY <1>1, <1>2, <2>1, <2>2, <2>3, <2>4, <2>5, <2>6
       DEF StreamInv, Kept, ServerTypeOK, Same
<1> QED
  BY <1>3, <1>4 DEF Post

LEMMA TakeKeeps ==
  ASSUME ServerTypeOK, NEW r \in Requests, StreamInv(r), Take(r)
  PROVE  /\ ServerTypeOK' /\ StreamInv(r)'
         /\ \A q \in Requests \ {r} : Same(q)
         /\ pc' = pc /\ answer' = answer
         /\ got'[r] = got[r] + 1 /\ pc[r] # "none"
<1>1. /\ got[r] < Len(sent[r]) /\ got' = [got EXCEPT ![r] = @ + 1]
      /\ UNCHANGED <<pc, closed, timers, aborted, ended, socket, sent, answer>>
  BY DEF Take
<1>2. /\ got' \in [Requests -> Nat] /\ got'[r] = got[r] + 1
      /\ \A q \in Requests \ {r} : got'[q] = got[q]
      /\ Len(sent[r]) \in Nat /\ got[r] \in Nat
  BY <1>1 DEF ServerTypeOK
<1>3. ServerTypeOK' /\ \A q \in Requests \ {r} : Same(q)
  BY <1>1, <1>2 DEF ServerTypeOK, Same
<1>4. pc[r] # "none"
  <2> SUFFICES ASSUME pc[r] = "none" PROVE FALSE
    OBVIOUS
  <2> QED
    BY <1>1, <1>2 DEF StreamInv, StageInv, LengthInv
<1>5. Undelivered(r)' = Undelivered(r) - 1 /\ Undelivered(r) \in Int
  BY <1>1, <1>2 DEF Undelivered
<1>6. FramesInv(r)' /\ StageInv(r)'
  BY <1>1, <1>4 DEF StreamInv, FramesInv, StageInv, LastSent
<1>7. LengthInv(r)'
  <2> HIDE DEF Undelivered
  <2> QED
    BY <1>1, <1>5, StreamBounds DEF StreamInv, LengthInv, LastSent
<1> QED
  BY <1>1, <1>2, <1>3, <1>4, <1>6, <1>7 DEF StreamInv

-----------------------------------------------------------------------------
(* The conversation.                                                       *)

ClientTypeOK ==
  /\ status \in {"idle", "streaming", "done", "error"}
  /\ messages \in Seq(Message)
  /\ text \in 0..MaxTokens + 1
  /\ current \in 0..MaxRequests
  /\ stopped \in BOOLEAN
  /\ left \in BOOLEAN
  /\ status = "streaming" <=> current # 0

(* The handler of a question comes after it in the transcript and has all  *)
(* of its frames so far in the buffer; an answer shown as grounded is one  *)
(* that grows no more.                                                     *)
GroundedInv ==
  \A i \in 1..Len(messages) :
    messages[i].role = "assistant" /\ messages[i].grounded =>
      messages[i].text = answer[messages[i].of] /\ pc[messages[i].of] = "over"

TalkInv ==
  /\ current = 0 => text = 0
  /\ current # 0 =>
       /\ text = got[current]
       /\ messages # <<>>
       /\ messages[Len(messages)] = [role |-> "user", of |-> current]
  /\ TranscriptPairs
  /\ GroundedInv

ChatInv ==
  /\ ServerTypeOK /\ ClientTypeOK
  /\ \A r \in Requests : StreamInv(r)
  /\ TalkInv

StaysOver(q) == pc[q] = "over" => pc'[q] = "over" /\ answer'[q] = answer[q]

LEMMA CurrentIsRequest ==
  ASSUME ClientTypeOK, current # 0
  PROVE  current \in Requests
BY StreamBounds DEF ClientTypeOK, Requests

LEMMA MessageOf ==
  ASSUME ClientTypeOK, NEW i \in 1..Len(messages)
  PROVE  messages[i] \in Message /\ messages[i].of \in Requests
<1>1. messages[i] \in Message
  BY DEF ClientTypeOK
<1> QED
  BY <1>1 DEF Message

LEMMA MessagesKept ==
  ASSUME ClientTypeOK, TalkInv, messages' = messages,
         \A q \in Requests : StaysOver(q)
  PROVE  TranscriptPairs' /\ GroundedInv'
<1>1. TranscriptPairs'
  BY DEF TalkInv, TranscriptPairs
<1>2. GroundedInv'
  BY MessageOf DEF TalkInv, GroundedInv, StaysOver
<1> QED
  BY <1>1, <1>2

LEMMA Extended ==
  ASSUME NEW s \in Seq(Message), NEW m \in Message
  PROVE  /\ Append(s, m) \in Seq(Message)
         /\ Len(Append(s, m)) = Len(s) + 1 /\ Append(s, m) # <<>>
         /\ Append(s, m)[Len(s) + 1] = m
         /\ \A i \in 1..Len(s) : Append(s, m)[i] = s[i]
<1> HIDE DEF Message
<1> QED
  OBVIOUS

(* A message m is added: a question, or the answer to the last message.    *)
LEMMA MessageAdded ==
  ASSUME ClientTypeOK, TalkInv, \A q \in Requests : StaysOver(q),
         NEW m \in Message, messages' = Append(messages, m),
         m.role = "assistant" =>
           /\ messages # <<>>
           /\ messages[Len(messages)] = [role |-> "user", of |-> m.of]
           /\ m.grounded => m.text = answer'[m.of] /\ pc'[m.of] = "over"
  PROVE  /\ messages' \in Seq(Message) /\ messages' # <<>>
         /\ messages'[Len(messages')] = m
         /\ TranscriptPairs' /\ GroundedInv'
<1>1. /\ messages' \in Seq(Message) /\ messages' # <<>>
      /\ Len(messages') = Len(messages) + 1 /\ messages'[Len(messages) + 1] = m
      /\ \A i \in 1..Len(messages) : messages'[i] = messages[i]
      /\ Len(messages) \in Nat
  BY Extended DEF ClientTypeOK
<1>2. ASSUME NEW i \in 1..Len(messages'), messages'[i].role = "assistant"
      PROVE  i > 1 /\ messages'[i - 1] = [role |-> "user", of |-> messages'[i].of]
  <2>1. CASE i = Len(messages) + 1
    <3>1. Len(messages) > 0
      BY <1>1, <1>2, <2>1 DEF ClientTypeOK
    <3> QED
      BY <1>1, <1>2, <2>1, <3>1
  <2>2. CASE i \in 1..Len(messages)
    <3>1. i > 1 /\ messages[i - 1] = [role |-> "user", of |-> messages[i].of]
      BY <1>1, <1>2, <2>2 DEF TalkInv, TranscriptPairs
    <3>2. messages'[i - 1] = messages[i - 1]
      BY <1>1, <2>2, <3>1
    <3> QED
      BY <1>1, <2>2, <3>1, <3>2
  <2> QED
    BY <1>1, <2>1, <2>2
<1>3. ASSUME NEW i \in 1..Len(messages'), messages'[i].role = "assistant",
             messages'[i].grounded
      PROVE  messages'[i].text = answer'[messages'[i].of] /\ pc'[messages'[i].of] = "over"
  <2>1. CASE i = Len(messages) + 1
    BY <1>1, <1>3, <2>1
  <2>2. CASE i \in 1..Len(messages)
    <3>1. messages'[i] = messages[i] /\ messages[i].of \in Requests
      BY <1>1, <2>2, MessageOf
    <3> QED
      BY <1>3, <2>2, <3>1 DEF TalkInv, GroundedInv, StaysOver
  <2> QED
    BY <1>1, <2>1, <2>2
<1> QED
  BY <1>1, <1>2, <1>3 DEF TranscriptPairs, GroundedInv

-----------------------------------------------------------------------------
(* The steps of the client.                                                *)

LEMMA FinishedKeeps ==
  ASSUME ClientTypeOK, TalkInv, current # 0, \A q \in Requests : StaysOver(q),
         NEW g \in BOOLEAN, Finished(g),
         g => text = answer[current] /\ pc[current] = "over"
  PROVE  ClientTypeOK' /\ TalkInv'
<1>1. current \in Requests /\ text \in 0..MaxTokens + 1
  BY CurrentIsRequest DEF ClientTypeOK
<1>2. PICK m : m = [role |-> "assistant", of |-> current, text |-> text, grounded |-> g]
  OBVIOUS
<1>3. /\ m \in Message /\ m.role = "assistant" /\ m.of = current
      /\ m.text = text /\ m.grounded = g
  BY <1>1, <1>2 DEF Message
<1>4. messages' = Append(messages, m)
  BY <1>2 DEF Finished
<1>5. /\ messages # <<>>
      /\ messages[Len(messages)] = [role |-> "user", of |-> m.of]
  BY <1>3 DEF TalkInv
<1>6. m.grounded => m.text = answer'[m.of] /\ pc'[m.of] = "over"
  BY <1>1, <1>3 DEF StaysOver
<1>7. messages' \in Seq(Message) /\ TranscriptPairs' /\ GroundedInv'
  BY <1>3, <1>4, <1>5, <1>6, MessageAdded
<1>8. /\ status' = "done" /\ text' = 0 /\ current' = 0
      /\ stopped' = stopped /\ left' = left
  BY DEF Finished
<1>9. ClientTypeOK'
  BY <1>7, <1>8, StreamBounds DEF ClientTypeOK
<1> QED
  BY <1>7, <1>8, <1>9 DEF TalkInv

LEMMA FailedKeeps ==
  ASSUME ClientTypeOK, TalkInv, \A q \in Requests : StaysOver(q), Failed
  PROVE  ClientTypeOK' /\ TalkInv'
<1>1. /\ status' = "error" /\ text' = 0 /\ current' = 0
      /\ messages' = messages /\ stopped' = stopped /\ left' = left
  BY DEF Failed
<1>2. TranscriptPairs' /\ GroundedInv'
  BY <1>1, MessagesKept
<1>3. ClientTypeOK'
  BY <1>1, StreamBounds DEF ClientTypeOK
<1> QED
  BY <1>1, <1>2, <1>3 DEF TalkInv

(* The server's part of a client's step that leaves it alone.              *)
LEMMA ServerAlone ==
  ASSUME ServerTypeOK, \A r \in Requests : StreamInv(r), UNCHANGED serverVars
  PROVE  /\ ServerTypeOK' /\ \A r \in Requests : StreamInv(r)'
         /\ \A q \in Requests : StaysOver(q)
BY SameKeeps DEF Same, ServerTypeOK, StaysOver

LEMMA SendKeeps ==
  ASSUME ChatInv, NEW r \in Requests, Send(r)
  PROVE  ChatInv'
<1>1. ServerTypeOK /\ ClientTypeOK /\ TalkInv /\ \A q \in Requests : StreamInv(q)
  BY DEF ChatInv
<1>2. Post(r)
  BY DEF Send
<1>3. Kept(r) /\ pc[r] = "none"
  BY <1>1, <1>2, PostKeeps
<1>4. ServerTypeOK' /\ \A q \in Requests : StreamInv(q)'
  BY <1>1, <1>3, SameKeeps DEF Kept
<1>5. \A q \in Requests : StaysOver(q)
  BY <1>3 DEF Kept, Same, StaysOver
<1>6. PICK m : m = [role |-> "user", of |-> r]
  OBVIOUS
<1>7. m \in Message /\ m.role = "user"
  BY <1>6 DEF Message
<1>8. /\ messages' = Append(messages, m) /\ status' = "streaming"
      /\ text' = 0 /\ current' = r /\ stopped' = FALSE /\ left' = left
  BY <1>6 DEF Send
<1>9. /\ messages' \in Seq(Message) /\ messages' # <<>>
      /\ messages'[Len(messages')] = m
      /\ TranscriptPairs' /\ GroundedInv'
  BY <1>1, <1>5, <1>7, <1>8, MessageAdded
<1>10. ClientTypeOK'
  <2>1. current' \in 0..MaxRequests /\ current' # 0 /\ text' \in 0..MaxTokens + 1
    BY <1>8, StreamBounds DEF Requests
  <2> QED
    BY <1>1, <1>8, <1>9, <2>1 DEF ClientTypeOK
<1>11. got'[r] = 0
  BY <1>1, <1>3 DEF StreamInv, StageInv, Kept
<1>12. TalkInv'
  BY <1>6, <1>8, <1>9, <1>11, StreamBounds DEF TalkInv, Requests
<1> QED
  BY <1>4, <1>10, <1>12 DEF ChatInv

LEMMA ReceiveKeeps ==
  ASSUME ChatInv, Receive
  PROVE  ChatInv'
<1>1. ServerTypeOK /\ ClientTypeOK /\ TalkInv /\ \A q \in Requests : StreamInv(q)
  BY DEF ChatInv
<1>2. current # 0 /\ current \in Requests /\ Take(current)
  BY <1>1, CurrentIsRequest DEF Receive
<1> PICK c \in Requests : c = current
  BY <1>2
<1>3. /\ ServerTypeOK' /\ StreamInv(c)'
      /\ \A q \in Requests \ {c} : Same(q)
      /\ pc' = pc /\ answer' = answer /\ got'[c] = got[c] + 1
  BY <1>1, <1>2, TakeKeeps
<1>4. \A q \in Requests : StreamInv(q)'
  BY <1>1, <1>3, SameKeeps
<1>5. \A q \in Requests : StaysOver(q)
  BY <1>3 DEF StaysOver
<1>6. /\ got[c] < Len(sent[c]) /\ got[c] \in Nat /\ Len(sent[c]) \in Nat
      /\ sent[c] \in Seq(Frames) /\ sent[c] # <<>> /\ text = got[c]
  BY <1>1, <1>2 DEF Take, ServerTypeOK, TalkInv
<1>7. PICK frame : frame = sent[c][got[c] + 1]
  OBVIOUS
<1>8. \/ /\ frame = "token"
         /\ text' = text + 1
         /\ UNCHANGED <<status, messages, current, stopped, left>>
      \/ frame \in {"grounded", "ungrounded"} /\ Finished(frame = "grounded")
      \/ frame \in {"error", "rejected"} /\ Failed
  BY <1>7 DEF Receive
<1>9. frame # "token" => got[c] + 1 = Len(sent[c])
  BY <1>1, <1>6, <1>7 DEF StreamInv, FramesInv
<1>10. CASE /\ frame = "token"
            /\ text' = text + 1
            /\ UNCHANGED <<status, messages, current, stopped, left>>
  <2>1. got[c] + 1 <= MaxTokens + 1
    <3>1. Len(sent[c]) > MaxTokens =>
            sent[c][Len(sent[c])] # "token" /\ Len(sent[c]) <= MaxTokens + 2
      BY <1>1 DEF StreamInv, LengthInv, LastSent
    <3>2. CASE got[c] + 1 = Len(sent[c])
      <4>1. sent[c][Len(sent[c])] = "token"
        BY <1>7, <1>10, <3>2
      <4> QED
        BY <1>6, <3>1, <3>2, <4>1, StreamBounds
    <3>3. CASE got[c] + 1 # Len(sent[c])
      BY <1>6, <3>1, <3>3, StreamBounds
    <3> QED
      BY <3>2, <3>3
  <2>2. ClientTypeOK'
    BY <1>1, <1>6, <1>10, <2>1, StreamBounds DEF ClientTypeOK
  <2>3. TranscriptPairs' /\ GroundedInv'
    BY <1>1, <1>5, <1>10, MessagesKept
  <2>4. TalkInv'
    BY <1>1, <1>2, <1>3, <1>6, <1>10, <2>3 DEF TalkInv
  <2> QED
    BY <1>3, <1>4, <2>2, <2>4 DEF ChatInv
<1>11. CASE frame \in {"grounded", "ungrounded"} /\ Finished(frame = "grounded")
  <2>1. PICK g \in BOOLEAN : g = (frame = "grounded")
    OBVIOUS
  <2>2. Finished(g)
    BY <1>11, <2>1, Zenon
  <2>3. g => text = answer[c] /\ pc[c] = "over"
    <3>1. sent[c][Len(sent[c])] = "grounded" => pc[c] = "over" /\ Len(sent[c]) - 1 = answer[c]
      BY <1>1, <1>6 DEF StreamInv, LengthInv, LastSent
    <3> SUFFICES ASSUME g PROVE text = answer[c] /\ pc[c] = "over"
      OBVIOUS
    <3>2. frame = "grounded"
      BY <2>1
    <3>3. got[c] + 1 = Len(sent[c]) /\ sent[c][Len(sent[c])] = "grounded"
      BY <1>7, <1>9, <3>2
    <3> QED
      BY <1>6, <3>1, <3>3
  <2>4. ClientTypeOK' /\ TalkInv'
    BY <1>1, <1>2, <1>5, <2>2, <2>3, FinishedKeeps
  <2> QED
    BY <1>3, <1>4, <2>4 DEF ChatInv
<1>12. CASE frame \in {"error", "rejected"} /\ Failed
  <2>1. ClientTypeOK' /\ TalkInv'
    BY <1>1, <1>5, <1>12, FailedKeeps
  <2> QED
    BY <1>3, <1>4, <2>1 DEF ChatInv
<1> QED
  BY <1>8, <1>10, <1>11, <1>12

LEMMA OtherClientKeeps ==
  ASSUME ChatInv, Cut \/ CancelStream \/ Cancelled \/ Leave
  PROVE  ChatInv'
<1>1. ServerTypeOK /\ ClientTypeOK /\ TalkInv /\ \A q \in Requests : StreamInv(q)
  BY DEF ChatInv
<1>2. UNCHANGED serverVars
  BY DEF Cut, CancelStream, Cancelled, Leave
<1>3. /\ ServerTypeOK' /\ \A q \in Requests : StreamInv(q)'
      /\ \A q \in Requests : StaysOver(q)
  BY <1>1, <1>2, ServerAlone
<1>4. CASE Cut
  <2>1. CASE Failed
    BY <1>1, <1>3, <2>1, FailedKeeps DEF ChatInv
  <2>2. CASE Finished(FALSE)
    BY <1>1, <1>3, <1>4, <2>2, FinishedKeeps DEF ChatInv, Cut
  <2> QED
    BY <1>4, <2>1, <2>2 DEF Cut
<1>5. CASE Cancelled
  BY <1>1, <1>3, <1>5, FinishedKeeps DEF ChatInv, Cancelled
<1>6. CASE CancelStream
  <2>1. TranscriptPairs' /\ GroundedInv'
    BY <1>1, <1>3, <1>6, MessagesKept DEF CancelStream
  <2>2. ClientTypeOK' /\ TalkInv'
    BY <1>1, <1>2, <1>6, <2>1 DEF CancelStream, ClientTypeOK, TalkInv
  <2> QED
    BY <1>3, <2>2 DEF ChatInv
<1>7. CASE Leave
  <2>1. TranscriptPairs' /\ GroundedInv'
    BY <1>1, <1>3, <1>7, MessagesKept DEF Leave
  <2>2. ClientTypeOK'
    BY <1>1, <1>7, StreamBounds DEF Leave, ClientTypeOK
  <2>3. TalkInv'
    BY <1>7, <2>1 DEF Leave, TalkInv
  <2> QED
    BY <1>3, <2>2, <2>3 DEF ChatInv
<1> QED
  BY <1>4, <1>5, <1>6, <1>7

(* A step that leaves the client alone, and the reader of its stream.      *)
LEMMA ClientAlone ==
  ASSUME ChatInv, NEW r \in Requests, UNCHANGED clientVars,
         ServerTypeOK', StreamInv(r)', \A q \in Requests \ {r} : Same(q),
         r = current => got'[r] = got[r], StaysOver(r)
  PROVE  ChatInv'
<1>1. ServerTypeOK /\ ClientTypeOK /\ TalkInv /\ \A q \in Requests : StreamInv(q)
  BY DEF ChatInv
<1>2. \A q \in Requests : StreamInv(q)' /\ StaysOver(q)
  BY <1>1, SameKeeps DEF Same, StaysOver
<1>3. TranscriptPairs' /\ GroundedInv'
  BY <1>1, <1>2, MessagesKept
<1>4. current # 0 => got'[current] = got[current]
  BY <1>1, CurrentIsRequest DEF Same
<1>5. ClientTypeOK' /\ TalkInv'
  BY <1>1, <1>3, <1>4 DEF ClientTypeOK, TalkInv
<1> QED
  BY <1>2, <1>5 DEF ChatInv

LEMMA ChatInit == Init => ChatInv
<1> SUFFICES ASSUME Init PROVE ChatInv
  OBVIOUS
<1> USE DEF Init, ServerInit
<1>1. ServerTypeOK
  BY StreamBounds DEF ServerTypeOK, Awaits
<1>2. ClientTypeOK
  <2>1. messages \in Seq(Message) /\ text \in 0..MaxTokens + 1 /\ current \in 0..MaxRequests
    BY StreamBounds
  <2>2. status = "idle" /\ current = 0
    OBVIOUS
  <2>3. status = "streaming" <=> current # 0
    BY <2>2
  <2> QED
    BY <2>1, <2>2, <2>3 DEF ClientTypeOK
<1>3. ASSUME NEW r \in Requests PROVE StreamInv(r)
  BY StreamBounds
     DEF StreamInv, FramesInv, StageInv, LengthInv, LastSent, Undelivered, Running
<1>4. TalkInv
  BY DEF TalkInv, TranscriptPairs, GroundedInv
<1> QED
  BY <1>1, <1>2, <1>3, <1>4 DEF ChatInv

LEMMA ChatNext == ChatInv /\ [Next]_vars => ChatInv'
<1> SUFFICES ASSUME ChatInv, [Next]_vars PROVE ChatInv'
  OBVIOUS
<1>1. ASSUME NEW r \in Requests, Send(r) PROVE ChatInv'
  BY <1>1, SendKeeps
<1>2. ASSUME NEW r \in Requests, Discard(r) PROVE ChatInv'
  <2>1. ServerTypeOK /\ StreamInv(r) /\ Take(r)
    BY <1>2 DEF ChatInv, Discard
  <2>2. /\ ServerTypeOK' /\ StreamInv(r)'
        /\ \A q \in Requests \ {r} : Same(q)
        /\ pc' = pc /\ answer' = answer
    BY <2>1, TakeKeeps
  <2> QED
    BY <1>2, <2>2, ClientAlone DEF Discard, StaysOver
<1>3. CASE Receive
  BY <1>3, ReceiveKeeps
<1>4. CASE Cut \/ CancelStream \/ Cancelled \/ Leave
  BY <1>4, OtherClientKeeps
<1>5. ASSUME NEW r \in Requests, Handler(r), UNCHANGED clientVars PROVE ChatInv'
  <2>1. Kept(r)
    BY <1>5, HandlerKeeps DEF ChatInv
  <2> QED
    BY <1>5, <2>1, ClientAlone DEF Kept, StaysOver
<1>6. CASE UNCHANGED vars
  <2>1. ServerTypeOK' /\ \A r \in Requests : StreamInv(r)' /\ StaysOver(r)
    BY <1>6, ServerAlone DEF ChatInv, vars
  <2>2. ClientTypeOK' /\ TalkInv'
    BY <1>6, <2>1, MessagesKept DEF ChatInv, vars, ClientTypeOK, TalkInv
  <2> QED
    BY <2>1, <2>2 DEF ChatInv
<1> QED
  BY <1>1, <1>2, <1>3, <1>4, <1>5, <1>6 DEF Next, Client

(* The invariant that all the theorems rest on.                            *)
LEMMA ChatInvariant == Spec => []ChatInv
BY ChatInit, ChatNext, PTL DEF Spec

-----------------------------------------------------------------------------
(* Every variable of server and client keeps its type, a transcript names  *)
(* only requests that were made, and no more text than an answer can have. *)
THEOREM TypeCorrect == Spec => []TypeOK
<1>1. ChatInv => TypeOK
  BY DEF ChatInv, ClientTypeOK, TypeOK
<1> QED
  BY <1>1, ChatInvariant, PTL

(* A stream is tokens and then at most one terminal frame, and a response  *)
(* that ends on a live connection has one, whichever of the coroutine, its *)
(* error paths and the timer ended it.                                     *)
THEOREM StreamsWellFormed == Spec => []FramesWellFormed
<1>1. ChatInv => FramesWellFormed
  BY DEF ChatInv, StreamInv, FramesInv, LastSent, FramesWellFormed
<1> QED
  BY <1>1, ChatInvariant, PTL

(* No timer or heartbeat of the handler outlives its coroutine.            *)
THEOREM TimersAlwaysStop == Spec => []TimersStop
<1>1. ChatInv => TimersStop
  BY DEF ChatInv, StreamInv, StageInv, TimersStop
<1> QED
  BY <1>1, ChatInvariant, PTL

(* A reader that stalls holds back at most the mark of the response buffer *)
(* and one frame, however long the answer is.                              *)
THEOREM BufferStaysBounded == Spec => []BufferBounded
<1>1. ChatInv => BufferBounded
  BY DEF ChatInv, StreamInv, LengthInv, BufferBounded
<1> QED
  BY <1>1, ChatInvariant, PTL

(* In the client's transcript an answer follows the question it answers,   *)
(* whichever streams were superseded, cancelled or late.                   *)
THEOREM TranscriptStaysPaired == Spec => []TranscriptPairs
<1>1. ChatInv => TranscriptPairs
  BY DEF ChatInv, TalkInv
<1> QED
  BY <1>1, ChatInvariant, PTL

(* An answer the client shows as grounded is the whole answer that the     *)
(* server judged.                                                          *)
THEOREM GroundedAnswersWhole == Spec => []GroundedIsWhole
<1>1. ChatInv => GroundedIsWhole
  BY DEF ChatInv, TalkInv, GroundedInv, GroundedIsWhole
<1> QED
  BY <1>1, ChatInvariant, PTL
=============================================================================
