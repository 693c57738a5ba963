--------------------------- MODULE FrontendsProofs ---------------------------
(***************************************************************************)
(* Safety of messages sent mid-turn for every set of messages and any      *)
(* number of continuations.  OneFate alone is not inductive: that a        *)
(* message is tracked while its run lasts rests on when _outstanding may   *)
(* hold messages at all, and that no two fates meet on what it may hold.   *)
(***************************************************************************)
EXTENDS Frontends, SequenceTheorems, TLAPS

(* _outstanding fills only while a process takes input, and whoever        *)
(* empties it has settled its messages before.                             *)
Tracked ==
    /\ round \in {"none", "queueing", "launching"} => outstanding = {}
    /\ outstanding \cap (read \cup carried \cup reported) = {}
    /\ \A m \in outstanding : stage[m] = "accepted"

IInv == TypeOK /\ Tracked /\ OneFate

LEMMA InitInv == Init => IInv
<1> SUFFICES ASSUME Init PROVE IInv
  OBVIOUS
<1>1. queue \in Seq(Messages) /\ stdin \in Seq(Messages) /\ stdout \in Seq(Messages \cup Final)
  BY EmptySeq DEF Init
<1>2. reruns \in 0..MaxReruns
  BY BoundType DEF Init
<1>3. {accepting, afterResult, pause, failed} \subseteq BOOLEAN
  BY DEF Init
<1>4. TypeOK
  BY <1>1, <1>2, <1>3 DEF Init, TypeOK
<1>5. Tracked /\ OneFate
  BY DEF Init, Tracked, OneFate
<1>6. QED
  BY <1>4, <1>5 DEF IInv

(* Reading the agent's output leaves output. *)
LEMMA ReadsTail ==
    ASSUME TypeOK, NEW event, Reads(event)
    PROVE  stdout' \in Seq(Messages \cup Final)
BY HeadTailProperties DEF TypeOK, Reads

LEMMA TypeStep == TypeOK /\ Tracked /\ [Next]_vars => TypeOK'
<1> SUFFICES ASSUME TypeOK, Tracked, [Next]_vars PROVE TypeOK'
  OBVIOUS
<1> USE BoundType DEF TypeOK
<1>1. ASSUME NEW m \in Messages, Arrive(m) PROVE TypeOK'
  BY <1>1 DEF Arrive, Goes, turn, agent, fates
<1>2. ASSUME NEW m \in Messages, Inject(m) PROVE TypeOK'
  <2>1. stdin' \in Seq(Messages)
    BY <1>2, AppendProperties DEF Inject
  <2>2. QED
    BY <1>2, <2>1 DEF Inject, Goes, TakesInput, fates
<1>3. ASSUME NEW m \in Messages, Refuse(m) PROVE TypeOK'
  BY <1>3 DEF Refuse, Goes, turn, agent, fates
<1>4. ASSUME NEW m \in Messages, Hold(m) PROVE TypeOK'
  BY <1>4, AppendProperties DEF Hold, Goes, turn, agent, fates
<1>5. ASSUME NEW m \in Messages, TakeTurn(m) PROVE TypeOK'
  BY <1>5, HeadTailProperties DEF TakeTurn, Goes, agent, fates
<1>6. ASSUME NEW m \in Messages, ReadEcho(m) PROVE TypeOK'
  BY <1>6, ReadsTail DEF ReadEcho
<1>7. CASE Publish
  BY <1>7 DEF Publish, agent, fates
<1>8. CASE Launch
  <2>1. stdin' \in Seq(Messages) /\ stdout' \in Seq(Messages \cup Final)
    BY <1>8, EmptySeq DEF Launch, agent
  <2>2. {accepting', afterResult', pause', failed'} \subseteq BOOLEAN
    BY <1>8 DEF Launch
  <2>3. QED
    BY <1>8, <2>1, <2>2 DEF Launch, agent, fates
<1>9. CASE ReadResult
  <2>1. stdout' \in Seq(Messages \cup Final)
    BY <1>9, ReadsTail DEF ReadResult
  <2>2. {accepting', afterResult', pause', failed'} \subseteq BOOLEAN
    BY <1>9 DEF ReadResult, Close
  <2>3. accepting' => round' \in {"reading", "ending"}
    BY <1>9 DEF ReadResult, Close, Reads
  <2>4. /\ round' \in {"none", "queueing", "launching", "reading", "ending", "closed", "deciding"}
        /\ cli' \in {"busy", "idle", "dead"}
    BY <1>9 DEF ReadResult, Close
  <2>5. QED
    BY <1>9, <2>1, <2>2, <2>3, <2>4 DEF ReadResult, fates
<1>10. CASE EndReading
  BY <1>10 DEF EndReading, Close, fates
<1>11. CASE Unregister
  BY <1>11 DEF Unregister, agent, fates
<1>12. CASE Continue
  <2>1. reruns' \in 0..MaxReruns
    BY <1>12 DEF Continue
  <2>2. QED
    BY <1>12, <2>1 DEF Continue, EndRound, agent
<1>13. CASE Finish
  BY <1>13 DEF Finish, EndRound, agent
<1>14. CASE StreamEnds
  BY <1>14, ReadsTail DEF StreamEnds, Reads, fates
<1>15. CASE Interrupt
  BY <1>15 DEF Interrupt, agent, fates
<1>16. CASE CliRead
  <2>1. Head(stdin) \in Messages /\ Tail(stdin) \in Seq(Messages)
    BY <1>16, HeadTailProperties DEF CliRead
  <2>2. stdout' \in Seq(Messages \cup Final)
    BY <1>16, <2>1, AppendProperties DEF CliRead
  <2>3. QED
    BY <1>16, <2>1, <2>2 DEF CliRead, turn, fates
<1>17. CASE CliEndTurn
  <2>1. Append(stdout, "result") \in Seq(Messages \cup Final)
    BY AppendProperties DEF Final
  <2>2. stdout \o <<"error", "eof">> \in Seq(Messages \cup Final)
    <3>1. <<"error", "eof">> \in Seq(Messages \cup Final)
      BY DEF Final
    <3>2. QED
      BY <3>1, ConcatProperties
  <2>3. QED
    BY <1>17, <2>1, <2>2 DEF CliEndTurn, turn, fates
<1>18. CASE CliExit
  BY <1>18, AppendProperties DEF CliExit, Final, turn, fates
<1>19. CASE UNCHANGED vars
  BY <1>19 DEF vars, turn, agent, fates
<1>20. QED
  BY <1>1, <1>2, <1>3, <1>4, <1>5, <1>6, <1>7, <1>8, <1>9, <1>10, <1>11, <1>12,
     <1>13, <1>14, <1>15, <1>16, <1>17, <1>18, <1>19 DEF Next, Bridge, Run

LEMMA FateStep == IInv /\ [Next]_vars => (Tracked /\ OneFate)'
<1> SUFFICES ASSUME IInv, [Next]_vars PROVE (Tracked /\ OneFate)'
  OBVIOUS
<1> USE DEF IInv, TypeOK, Tracked, OneFate
(* The steps that accept a message or settle one. *)
<1>1. ASSUME NEW m \in Messages, Inject(m) PROVE (Tracked /\ OneFate)'
  BY <1>1 DEF Inject, Goes, TakesInput, fates
<1>2. ASSUME NEW m \in Messages, ReadEcho(m) PROVE (Tracked /\ OneFate)'
  BY <1>2 DEF ReadEcho
<1>3. CASE Continue
  BY <1>3 DEF Continue, EndRound
<1>4. CASE Finish
  BY <1>4 DEF Finish, EndRound
(* The steps of a message that is not accepted. *)
<1>5. ASSUME NEW m \in Messages, Arrive(m) \/ Refuse(m) \/ Hold(m) PROVE (Tracked /\ OneFate)'
  BY <1>5 DEF Arrive, Refuse, Hold, Goes, turn, fates
<1>6. ASSUME NEW m \in Messages, TakeTurn(m) PROVE (Tracked /\ OneFate)'
  BY <1>6 DEF TakeTurn, Goes, fates
(* The steps that move the round on. *)
<1>7. CASE Publish \/ Launch \/ Unregister
  BY <1>7 DEF Publish, Launch, Unregister, fates
<1>8. CASE ReadResult
  BY <1>8 DEF ReadResult, Reads, Close, fates
<1>9. CASE EndReading
  BY <1>9 DEF EndReading, Close, fates
<1>10. CASE StreamEnds
  BY <1>10 DEF StreamEnds, Reads, fates
(* The steps that change neither the round nor a message. *)
<1>11. CASE Interrupt \/ CliRead \/ CliEndTurn \/ CliExit \/ UNCHANGED vars
  BY <1>11 DEF Interrupt, CliRead, CliEndTurn, CliExit, vars, turn, fates
<1>12. QED
  BY <1>1, <1>2, <1>3, <1>4, <1>5, <1>6, <1>7, <1>8, <1>9, <1>10, <1>11 DEF Next, Bridge, Run

LEMMA StepInv == IInv /\ [Next]_vars => IInv'
BY TypeStep, FateStep DEF IInv

(* The types of the messages' stages, the run and the agent's pipes.       *)
THEOREM LiveInputTypeCorrect == Spec => []TypeOK
BY InitInv, StepInv, PTL DEF Spec, IInv

(* "Never both, never neither": whenever a message is injected, the agent  *)
(* exits, is interrupted or falls silent, an accepted message has at most  *)
(* one of its three fates, and until it has one its run tracks it.         *)
THEOREM AcceptedMessagesHaveOneFate == Spec => []OneFate
BY InitInv, StepInv, PTL DEF Spec, IInv

-----------------------------------------------------------------------------
(* The composition: a step of it is a step of each component or leaves it  *)
(* as it is, so what holds of a component's behaviours holds here.         *)
RelayFacts == INSTANCE TeamsRelayProofs

LEMMA InputBehaves == AllSpec => Spec
<1>1. AllInit => Init
  BY DEF AllInit
<1>2. [AllNext]_<<part, vars, relayVars>> => [Next]_vars
  BY DEF AllNext
<1>3. QED
  BY <1>1, <1>2, PTL DEF AllSpec, Spec

LEMMA RelayBehaves == AllSpec => RelayFacts!Spec
<1>1. AllInit => RelayFacts!Init
  BY DEF AllInit, Relay!Init, RelayFacts!Init, Relay!Copies, RelayFacts!Copies
<1>2. Relay!Next => RelayFacts!Next
  <2>1. ASSUME NEW a \in Activities
        PROVE  /\ Relay!Offer(a) => RelayFacts!Offer(a)
               /\ Relay!Receive(a) => RelayFacts!Receive(a)
               /\ Relay!ReceiveFails(a) => RelayFacts!ReceiveFails(a)
    BY DEF Relay!Offer, RelayFacts!Offer, Relay!Receive, RelayFacts!Receive, Relay!ReceiveFails, RelayFacts!ReceiveFails, Relay!Stored, RelayFacts!Stored, Relay!Fault, RelayFacts!Fault, Relay!puller, RelayFacts!puller
  <2>2. ASSUME NEW c \in Relay!Copies
        PROVE  c \in RelayFacts!Copies /\ (Relay!LeaseEnds(c) => RelayFacts!LeaseEnds(c))
    BY DEF Relay!LeaseEnds, RelayFacts!LeaseEnds, Relay!Copies, RelayFacts!Copies, Relay!puller, RelayFacts!puller
  <2>3. Relay!Pull => RelayFacts!Pull
    BY DEF Relay!Pull, RelayFacts!Pull, Relay!Visible, RelayFacts!Visible, Relay!Batches, RelayFacts!Batches, Relay!Leased, RelayFacts!Leased, Relay!Copies, RelayFacts!Copies, Relay!Cardinality, RelayFacts!Cardinality
  <2>4. Relay!PullFails => RelayFacts!PullFails
    BY DEF Relay!PullFails, RelayFacts!PullFails, Relay!Visible, RelayFacts!Visible, Relay!Leased, RelayFacts!Leased, Relay!Copies, RelayFacts!Copies, Relay!Fault, RelayFacts!Fault, Relay!puller, RelayFacts!puller
  <2>5. /\ Relay!Begin => RelayFacts!Begin
        /\ Relay!HandlerRaises => RelayFacts!HandlerRaises
        /\ Relay!HandlerReturns => RelayFacts!HandlerReturns
    BY DEF Relay!Begin, RelayFacts!Begin, Relay!HandlerRaises, RelayFacts!HandlerRaises, Relay!HandlerReturns, RelayFacts!HandlerReturns, Relay!InSeen, RelayFacts!InSeen, Relay!Activity, RelayFacts!Activity, Relay!Current, RelayFacts!Current, Relay!Receipt, RelayFacts!Receipt
  <2>6. /\ Relay!Ack => RelayFacts!Ack
        /\ Relay!AckFails => RelayFacts!AckFails
        /\ Relay!Stop => RelayFacts!Stop
        /\ Relay!Start => RelayFacts!Start
    BY DEF Relay!Ack, RelayFacts!Ack, Relay!AckFails, RelayFacts!AckFails, Relay!Stop, RelayFacts!Stop, Relay!Start, RelayFacts!Start, Relay!Current, RelayFacts!Current, Relay!Receipt, RelayFacts!Receipt, Relay!Fault, RelayFacts!Fault
  <2>7. QED
    BY <2>1, <2>2, <2>3, <2>4, <2>5, <2>6 DEF Relay!Next, RelayFacts!Next
<1>3. [AllNext]_<<part, vars, relayVars>> => [RelayFacts!Next]_(RelayFacts!vars)
  BY <1>2 DEF AllNext, relayVars, RelayFacts!vars
<1>4. QED
  BY <1>1, <1>3, PTL DEF AllSpec, RelayFacts!Spec

THEOREM FrontendsTypeCorrect == AllSpec => []TypesOK
<1>1. RelayFacts!TypeOK => Relay!TypeOK
  BY DEF Relay!TypeOK, RelayFacts!TypeOK, Relay!Copies, RelayFacts!Copies, Relay!MaxCount, RelayFacts!MaxCount
<1>2. RelayFacts!ConstantsType
  BY RelayConstants DEF Relay!ConstantsType, RelayFacts!ConstantsType, Relay!IsFiniteSet, RelayFacts!IsFiniteSet
<1>3. RelayFacts!Spec => []RelayFacts!TypeOK
  BY <1>2, RelayFacts!RelayTypeCorrect
<1>4. QED
  BY <1>1, <1>3, RelayBehaves, InputBehaves, LiveInputTypeCorrect, PTL DEF TypesOK

THEOREM NothingHandledTwice == AllSpec => []NotHandledTwice
<1>1. RelayFacts!NotHandledTwice => NotHandledTwice
  BY DEF Relay!NotHandledTwice, RelayFacts!NotHandledTwice, Relay!Cardinality, RelayFacts!Cardinality, NotHandledTwice
<1>2. RelayFacts!ConstantsType
  BY RelayConstants DEF Relay!ConstantsType, RelayFacts!ConstantsType, Relay!IsFiniteSet, RelayFacts!IsFiniteSet
<1>3. RelayFacts!Spec => []RelayFacts!NotHandledTwice
  BY <1>2, RelayFacts!RelayHandlesNothingTwice
<1>4. QED
  BY <1>1, <1>3, RelayBehaves, PTL
=============================================================================
