------------------------- MODULE FetchLongPollProofs -------------------------
(***************************************************************************)
(* Proof that no append is missed between the read and the wait of a long  *)
(* poll, for any number of handlers, records and leader changes.           *)
(***************************************************************************)
EXTENDS FetchLongPoll, TLAPS

(* Where Append stands bounds its variables.                               *)
AppendBounds ==
    /\ append = "write" => nextOffset < MaxOffset
    /\ append = "close" => newDataCh > 0

(* Every replaced channel is closed, but for the one that the Append in    *)
(* progress has replaced and not closed yet.                               *)
ReplacedAreClosed ==
    \A c \in 0 .. newDataCh - 1 :
        c \in closed \/ (append = "close" /\ c = newDataCh - 1)

(* A handler holds a channel that exists.                                  *)
ChannelsExist == \A f \in Fetcher : fetch[f].ch <= newDataCh

LongPollInv ==
    TypeOK /\ AppendBounds /\ ReplacedAreClosed /\ ChannelsExist /\ NoLostWakeup

(* A reply ends a handler, with a channel number that always exists.       *)
LEMMA ReturnedType ==
    ASSUME NEW r \in Reply
    PROVE  Returned(r) \in Handler /\ Returned(r).at = "done" /\ Returned(r).ch = 0
  BY LongPollAssumption DEF Returned, Handler

(* Every error has a reply.                                                *)
LEMMA MapDataErrorType == \A err : MapDataError(err) \in Reply
  BY DEF MapDataError, Reply

(* The initial state satisfies the invariant.                              *)
LEMMA LongPollInit == Init => LongPollInv
<1> SUFFICES ASSUME Init PROVE LongPollInv OBVIOUS
<1>1. Returned("none") \in Handler /\ Returned("none").at = "done"
      /\ Returned("none").ch = 0
  BY ReturnedType DEF Reply
<1>2. TypeOK BY <1>1, LongPollAssumption DEF Init, TypeOK, Leader
<1>3. ChannelsExist /\ NoLostWakeup
  BY <1>1 DEF Init, ChannelsExist, NoLostWakeup
<1>4. AppendBounds /\ ReplacedAreClosed
  BY DEF Init, AppendBounds, ReplacedAreClosed
<1> QED BY <1>2, <1>3, <1>4 DEF LongPollInv

(* A step that changes one handler and nothing else keeps the invariant if *)
(* the handler ends, or holds an existing channel and does not begin to    *)
(* wait for a record that is there.                                        *)
LEMMA HandlerStep ==
    ASSUME LongPollInv, Others, NEW f \in Fetcher, NEW h \in Handler,
           fetch' = [fetch EXCEPT ![f] = h],
           h.ch <= newDataCh,
           h.at = "wait" => \/ h.offset >= nextOffset
                            \/ /\ fetch[f].at = "wait"
                               /\ h.offset = fetch[f].offset /\ h.ch = fetch[f].ch
    PROVE  LongPollInv'
<1>0. /\ earliest' = earliest /\ nextOffset' = nextOffset /\ newDataCh' = newDataCh
      /\ closed' = closed /\ append' = append /\ leader' = leader
      /\ moves' = moves /\ shard' = shard
  BY DEF Others
<1>1. TypeOK BY DEF LongPollInv
<1>2. \A g \in Fetcher : fetch'[g] = IF g = f THEN h ELSE fetch[g]
  BY <1>1 DEF TypeOK
<1>3. TypeOK' BY <1>0, <1>1 DEF TypeOK
<1>4. AppendBounds' /\ ReplacedAreClosed'
  BY <1>0 DEF LongPollInv, AppendBounds, ReplacedAreClosed
<1>5. ChannelsExist' BY <1>0, <1>2 DEF LongPollInv, ChannelsExist
<1>6. NoLostWakeup'
  <2> SUFFICES ASSUME NEW g \in Fetcher, fetch'[g].at = "wait",
                      fetch'[g].offset < nextOffset
               PROVE  \/ fetch'[g].ch \in closed
                      \/ append = "swap" /\ fetch'[g].ch = newDataCh
                      \/ append = "close" /\ fetch'[g].ch = newDataCh - 1
    BY <1>0 DEF NoLostWakeup
  <2>1. CASE g # f BY <1>2, <2>1 DEF LongPollInv, NoLostWakeup
  <2>2. CASE g = f
    <3>1. h.offset \in Nat /\ nextOffset \in Nat
      BY <1>1, LongPollAssumption DEF Handler, TypeOK
    <3>2. fetch[f].at = "wait" /\ h.offset = fetch[f].offset /\ h.ch = fetch[f].ch
      BY <1>2, <2>2, <3>1
    <3> QED BY <1>2, <2>2, <3>2 DEF LongPollInv, NoLostWakeup
  <2> QED BY <2>1, <2>2
<1> QED BY <1>3, <1>4, <1>5, <1>6 DEF LongPollInv

(* A handler that returns keeps the invariant.                             *)
LEMMA ReturnStep ==
    ASSUME LongPollInv, Others, NEW f \in Fetcher, NEW r \in Reply, Return(f, r)
    PROVE  LongPollInv'
<1>1. 0 <= newDataCh BY DEF LongPollInv, TypeOK
<1> QED BY <1>1, ReturnedType, HandlerStep, Zenon DEF Return

(* So does one that returns an error.                                      *)
LEMMA FailStep ==
    ASSUME LongPollInv, Others, NEW f \in Fetcher, NEW err, Fail(f, err)
    PROVE  LongPollInv'
  BY MapDataErrorType, ReturnStep DEF Fail

(* A handler that goes on to any place but the wait keeps the invariant.   *)
LEMMA MoveStep ==
    ASSUME LongPollInv, Others, NEW f \in Fetcher,
           NEW at \in {"check", "channel", "leader", "read"},
           fetch' = [fetch EXCEPT ![f].at = at]
    PROVE  LongPollInv'
<1> DEFINE h == [fetch[f] EXCEPT !.at = at]
<1>1. fetch[f] \in Handler BY DEF LongPollInv, TypeOK
<1>2. h \in Handler /\ h.at = at /\ h.ch = fetch[f].ch BY <1>1 DEF Handler
<1>3. fetch' = [fetch EXCEPT ![f] = h] OBVIOUS
<1>4. h.ch <= newDataCh BY <1>2 DEF LongPollInv, ChannelsExist
<1> HIDE DEF h
<1> QED BY <1>2, <1>3, <1>4, HandlerStep, Zenon

(* The order of the loop: only "read" is followed by the wait.             *)
LEMMA LoopOrderFacts ==
    /\ LoopOrder("check") = "channel" /\ LoopOrder("channel") = "leader"
    /\ LoopOrder("leader") = "read" /\ LoopOrder("read") = "wait"
    /\ LoopOrder("wait") = "channel"
  BY DEF LoopOrder

(* The order of Append.                                                    *)
LEMMA AppendOrderFacts ==
    /\ AppendOrder("idle") = "write" /\ AppendOrder("write") = "swap"
    /\ AppendOrder("swap") = "close" /\ AppendOrder("close") = "idle"
  BY DEF AppendOrder

(* Proceed from any place but "read".                                      *)
LEMMA ProceedStep ==
    ASSUME LongPollInv, Others, NEW f \in Fetcher, Proceed(f),
           fetch[f].at \in {"check", "channel", "leader", "wait"}
    PROVE  LongPollInv'
<1> DEFINE at == LoopOrder(fetch[f].at)
<1>1. at \in {"check", "channel", "leader", "read"} BY LoopOrderFacts
<1>2. fetch' = [fetch EXCEPT ![f].at = at] BY DEF Proceed
<1> HIDE DEF at
<1> QED BY <1>1, <1>2, MoveStep, Zenon

(* The steps of a handler keep the invariant.                              *)
LEMMA HandlerSteps ==
    ASSUME LongPollInv, NEW f \in Fetcher,
           Call(f) \/ FetchStep(f) \/ TimesOut(f) \/ Deadline(f)
    PROVE  LongPollInv'
<1>t. /\ fetch[f] \in Handler /\ newDataCh \in Nat /\ nextOffset \in Nat
      /\ fetch[f].ch \in Nat /\ fetch[f].ch <= newDataCh
      /\ fetch[f].offset \in 0 .. MaxOffset /\ leader \in Leader
  BY LongPollAssumption DEF LongPollInv, TypeOK, Handler, ChannelsExist
<1>r. {"data", "empty"} \subseteq Reply BY DEF Reply
<1>1. CASE Call(f)
  <2> PICK o \in 0 .. MaxOffset, w \in BOOLEAN :
          fetch' = [fetch EXCEPT ![f] = [at |-> "check", wait |-> w, offset |-> o,
                                         ch |-> 0, expired |-> FALSE, reply |-> "none"]]
    BY <1>1, Zenon DEF Call
  <2> DEFINE h == [at |-> "check", wait |-> w, offset |-> o,
                   ch |-> 0, expired |-> FALSE, reply |-> "none"]
  <2>1. h \in Handler /\ h.ch <= newDataCh /\ h.at # "wait"
    BY <1>t DEF Handler, Reply
  <2>2. fetch' = [fetch EXCEPT ![f] = h] OBVIOUS
  <2>3. Others BY <1>1 DEF Call
  <2> HIDE DEF h
  <2> QED BY <2>1, <2>2, <2>3, HandlerStep, Zenon
<1>2. CASE LeaderCheck(f)
  <2>1. Others BY <1>2 DEF LeaderCheck
  <2>2. CASE Fail(f, "NotLeaderError") BY <2>1, <2>2, FailStep
  <2>3. CASE Fail(f, "ErrUnavailable") BY <2>1, <2>3, FailStep
  <2>4. CASE Proceed(f) BY <1>2, <2>1, <2>4, ProceedStep DEF LeaderCheck
  <2>5. CASE fetch' = [fetch EXCEPT ![f].at = "read"] BY <2>1, <2>5, MoveStep, Zenon
  <2> QED BY <1>2, <2>2, <2>3, <2>4, <2>5 DEF LeaderCheck
<1>3. CASE TakeChannel(f)
  <2>1. Others BY <1>3 DEF TakeChannel
  <2>2. CASE Return(f, "empty") BY <1>r, <2>1, <2>2, ReturnStep
  <2>3. CASE Fail(f, "ErrShardClosed") BY <2>1, <2>3, FailStep
  <2>4. CASE fetch' = [fetch EXCEPT ![f].ch = newDataCh, ![f].at = LoopOrder(@)]
    <3> DEFINE h == [fetch[f] EXCEPT !.ch = newDataCh, !.at = "leader"]
    <3>1. fetch[f].at = "channel" BY <1>3 DEF TakeChannel
    <3>2. fetch' = [fetch EXCEPT ![f] = h]
      BY <1>t, <2>4, <3>1, LoopOrderFacts DEF LongPollInv, TypeOK, Handler
    <3>3. h \in Handler BY <1>t, Zenon DEF Handler
    <3>4. h.ch = newDataCh /\ h.at = "leader" BY <1>t DEF Handler
    <3>5. h.ch <= newDataCh /\ h.at # "wait" BY <1>t, <3>4
    <3> HIDE DEF h
    <3> QED BY <2>1, <3>2, <3>3, <3>5, HandlerStep, Zenon
  <2> QED BY <1>3, <2>2, <2>3, <2>4 DEF TakeChannel
<1>4. CASE LeaderRecheck(f)
  <2>1. Others BY <1>4 DEF LeaderRecheck
  <2>2. CASE leader = "here"
    <3>1. Proceed(f) BY <1>4, <2>2 DEF LeaderRecheck
    <3> QED BY <1>4, <2>1, <3>1, ProceedStep DEF LeaderRecheck
  <2>3. CASE leader = "elsewhere"
    <3>1. Fail(f, "NotLeaderError") BY <1>4, <2>3 DEF LeaderRecheck
    <3> QED BY <2>1, <3>1, FailStep
  <2>4. CASE leader = "noTopic"
    <3>1. Fail(f, "ErrUnavailable") BY <1>4, <2>4 DEF LeaderRecheck
    <3> QED BY <2>1, <3>1, FailStep
  <2> QED BY <1>t, <2>2, <2>3, <2>4 DEF Leader
<1>5. CASE Read(f)
  <2>1. Others BY <1>5 DEF Read
  <2>2. CASE Fail(f, "ErrShardClosed") BY <2>1, <2>2, FailStep
  <2>3. CASE Fail(f, "storage.ErrOffsetOutOfRange") BY <2>1, <2>3, FailStep
  <2>4. CASE Return(f, "data") BY <1>r, <2>1, <2>4, ReturnStep
  <2>5. CASE Return(f, "empty") BY <1>r, <2>1, <2>5, ReturnStep
  <2>6. CASE ~(fetch[f].offset < nextOffset) /\ Proceed(f)
    <3> DEFINE h == [fetch[f] EXCEPT !.at = "wait"]
    <3>1. fetch[f].at = "read" BY <1>5 DEF Read
    <3>2. fetch' = [fetch EXCEPT ![f] = h]
      BY <1>t, <2>6, <3>1, LoopOrderFacts, Zenon DEF Proceed
    <3>3. h \in Handler /\ h.ch <= newDataCh /\ h.offset >= nextOffset
      BY <1>t, <2>6 DEF Handler
    <3> HIDE DEF h
    <3> QED BY <2>1, <3>2, <3>3, HandlerStep, Zenon
  <2> QED BY <1>5, <2>2, <2>3, <2>4, <2>5, <2>6 DEF Read
<1>6. CASE Woken(f) BY <1>6, ProceedStep DEF Woken
<1>7. CASE TimesOut(f) BY <1>7, <1>r, ReturnStep DEF TimesOut
<1>8. CASE Deadline(f)
  <2> DEFINE h == [fetch[f] EXCEPT !.expired = TRUE]
  <2>1. fetch' = [fetch EXCEPT ![f] = h] BY <1>8 DEF Deadline
  <2>2. /\ h \in Handler /\ h.ch <= newDataCh
        /\ h.at = fetch[f].at /\ h.offset = fetch[f].offset /\ h.ch = fetch[f].ch
    BY <1>t, Zenon DEF Handler
  <2>3. Others BY <1>8 DEF Deadline
  <2> HIDE DEF h
  <2> QED BY <2>1, <2>2, <2>3, HandlerStep, Zenon
<1> QED BY <1>1, <1>2, <1>3, <1>4, <1>5, <1>6, <1>7, <1>8 DEF FetchStep

(* The steps of Append, of retention and of the shard keep the invariant.  *)
LEMMA WriterSteps ==
    ASSUME LongPollInv, AppendStart \/ AppendStep \/ Retention \/ LeaderMoves \/ StopShard
    PROVE  LongPollInv'
<1> USE LongPollAssumption
<1>t. TypeOK /\ AppendBounds /\ ReplacedAreClosed /\ ChannelsExist /\ NoLostWakeup
  BY DEF LongPollInv
<1>1. CASE AppendStart
  BY <1>1, <1>t, AppendOrderFacts
     DEF AppendStart, LongPollInv, TypeOK, AppendBounds, ReplacedAreClosed,
         ChannelsExist, NoLostWakeup
<1>2. CASE AppendWrite
  <2>0. /\ append = "write" /\ append' = "swap" /\ nextOffset' = nextOffset + 1
        /\ UNCHANGED <<earliest, newDataCh, closed, leader, moves, shard, fetch>>
    BY <1>2, AppendOrderFacts DEF AppendWrite
  <2>1. TypeOK' /\ AppendBounds' /\ ReplacedAreClosed' /\ ChannelsExist'
    BY <1>t, <2>0 DEF TypeOK, AppendBounds, ReplacedAreClosed, ChannelsExist
  <2>2. ASSUME NEW f \in Fetcher PROVE fetch[f].ch \in closed \/ fetch[f].ch = newDataCh
    <3>1. fetch[f].ch \in Nat /\ newDataCh \in Nat /\ fetch[f].ch <= newDataCh
      BY <1>t DEF TypeOK, Handler, ChannelsExist
    <3> QED BY <1>t, <2>0, <3>1 DEF ReplacedAreClosed
  <2>3. NoLostWakeup' BY <2>0, <2>2 DEF NoLostWakeup
  <2> QED BY <2>1, <2>3 DEF LongPollInv
<1>3. CASE AppendSwap
  <2>0. /\ append = "swap" /\ append' = "close" /\ newDataCh' = newDataCh + 1
        /\ UNCHANGED <<earliest, nextOffset, closed, leader, moves, shard, fetch>>
    BY <1>3, AppendOrderFacts DEF AppendSwap
  <2>1. newDataCh \in Nat /\ \A f \in Fetcher : fetch[f].ch \in Nat
    BY <1>t DEF TypeOK, Handler
  <2>2. TypeOK' BY <1>t, <2>0, <2>1 DEF TypeOK
  <2>3. AppendBounds' /\ ReplacedAreClosed' /\ ChannelsExist'
    BY <1>t, <2>0, <2>1 DEF AppendBounds, ReplacedAreClosed, ChannelsExist
  <2>4. NoLostWakeup' BY <1>t, <2>0, <2>1 DEF NoLostWakeup
  <2> QED BY <2>2, <2>3, <2>4 DEF LongPollInv
<1>4. CASE AppendClose
  <2>0. /\ append = "close" /\ append' = "idle" /\ closed' = closed \cup {newDataCh - 1}
        /\ UNCHANGED <<earliest, nextOffset, newDataCh, leader, moves, shard, fetch>>
    BY <1>4, AppendOrderFacts DEF AppendClose
  <2>1. newDataCh \in Nat /\ newDataCh > 0 BY <1>t, <2>0 DEF TypeOK, AppendBounds
  <2>2. TypeOK' BY <1>t, <2>0, <2>1 DEF TypeOK
  <2>3. AppendBounds' /\ ReplacedAreClosed' /\ ChannelsExist'
    BY <1>t, <2>0, <2>1 DEF AppendBounds, ReplacedAreClosed, ChannelsExist
  <2>4. NoLostWakeup' BY <1>t, <2>0, <2>1 DEF NoLostWakeup
  <2> QED BY <2>2, <2>3, <2>4 DEF LongPollInv
<1>5. CASE Retention
  BY <1>5, <1>t
     DEF Retention, LongPollInv, TypeOK, AppendBounds, ReplacedAreClosed,
         ChannelsExist, NoLostWakeup
<1>6. CASE LeaderMoves
  BY <1>6, <1>t
     DEF LeaderMoves, LongPollInv, TypeOK, AppendBounds, ReplacedAreClosed,
         ChannelsExist, NoLostWakeup
<1>7. CASE StopShard
  BY <1>7, <1>t
     DEF StopShard, LongPollInv, TypeOK, AppendBounds, ReplacedAreClosed,
         ChannelsExist, NoLostWakeup
<1> QED BY <1>1, <1>2, <1>3, <1>4, <1>5, <1>6, <1>7 DEF AppendStep

(* Every step, stuttering included, preserves the invariant.               *)
LEMMA LongPollNext == LongPollInv /\ [Next]_vars => LongPollInv'
<1> SUFFICES ASSUME LongPollInv, [Next]_vars PROVE LongPollInv' OBVIOUS
<1>1. CASE UNCHANGED vars
  BY <1>1 DEF vars, LongPollInv, TypeOK, AppendBounds, ReplacedAreClosed,
              ChannelsExist, NoLostWakeup
<1>2. CASE Next BY <1>2, HandlerSteps, WriterSteps DEF Next
<1> QED BY <1>1, <1>2

(* fetchWithLongPoll and Append: a handler that waits although its record  *)
(* is in the log holds a channel that is closed or about to be, however    *)
(* many handlers, appends, leader changes and stops interleave.            *)
THEOREM NoLostWakeupHolds == Spec => []NoLostWakeup
<1>1. LongPollInv => NoLostWakeup BY DEF LongPollInv
<1> QED BY LongPollInit, LongPollNext, <1>1, PTL DEF Spec

=============================================================================
