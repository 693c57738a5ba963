------------------------ MODULE AttachmentOutbox ------------------------
(***************************************************************************)
(* Files an agent asks to be attached (claude_discord/attachment_outbox.py)*)
(*                                                                         *)
(* The agent appends paths to a marker file at any time.  When a turn      *)
(* completes, the requests move to a .pending file and are sent one by     *)
(* one; each is struck out before the next is sent.  Both files outlive    *)
(* the process.  The agent's own process may be at its next turn by then.  *)
(***************************************************************************)
EXTENDS Integers, Sequences, SequencesExt, FiniteSets

CONSTANTS Files,        \* paths
          Unreadable,   \* those that are missing or too large to send
          Turns,        \* turns that may complete at the same time
          MaxRequests,  \* bound: requests of the agent
          MaxFaults     \* bound: crashes, failing sends and writes

ConstantsType == /\ IsFiniteSet(Files) /\ Unreadable \subseteq Files
                 /\ MaxRequests \in Nat /\ MaxFaults \in Nat

VARIABLES
    marker,    \* the lines of the marker file
    pending,   \* the lines of the .pending file
    paths,     \* of each turn: what its deliver_pending has in hand
    step,      \* of each turn: "idle", "queued" (for the lock), "read", "saved",
               \* "sending" or "sent"
    up,        \* whether the process runs
    owed,      \* history: files requested and not sent since
    raced,     \* history: files requested between a read and its unlink
    requests,  \* history: how often each file was requested
    sends,     \* history: how often the conversation got it
    unsure,    \* history: how often it may have got it and nobody knows
    faults

histories == <<owed, raced, requests, sends, unsure>>
vars == <<marker, pending, paths, step, up, histories, faults>>

(* The turn that holds the lock of the marker. *)
Holder == {t \in Turns : step[t] \notin {"idle", "queued"}}

TypeOK ==
    /\ marker \in Seq(Files) /\ pending \in Seq(Files)
    /\ paths \in [Turns -> Seq(Files)]
    /\ step \in [Turns -> {"idle", "queued", "read", "saved", "sending", "sent"}]
    /\ Cardinality(Holder) <= 1
    /\ up \in BOOLEAN /\ owed \subseteq Files /\ raced \subseteq Files
    /\ \A f \in Files : requests[f] \in Nat /\ sends[f] \in Nat /\ unsure[f] \in Nat
    /\ faults \in 0..MaxFaults

Init ==
    /\ marker = <<>> /\ pending = <<>> /\ paths = [t \in Turns |-> <<>>]
    /\ step = [t \in Turns |-> "idle"] /\ up = TRUE
    /\ owed = {} /\ raced = {}
    /\ requests = [f \in Files |-> 0]
    /\ sends = [f \in Files |-> 0] /\ unsure = [f \in Files |-> 0]
    /\ faults = 0

-----------------------------------------------------------------------------
(* dict.fromkeys: of equal paths the first stays. *)
Firsts(s) == {i \in DOMAIN s : \A j \in 1..(i - 1) : s[j] # s[i]}
Unique(s) ==
    [n \in 1..Cardinality(Firsts(s)) |->
        s[CHOOSE i \in Firsts(s) : Cardinality(Firsts(s) \cap (1..i)) = n]]
Merge(older, newer) == Unique(older \o newer)

(* How many paths were requested. *)
Requested == FoldSet(LAMBDA f, n : n + requests[f], 0, Files)

(* The agent appends a path. *)
Request(f) ==
    /\ Requested < MaxRequests
    /\ marker' = Append(marker, f)
    /\ requests' = [requests EXCEPT ![f] = @ + 1]
    /\ owed' = owed \cup {f}
    /\ raced' = IF \E t \in Turns : step[t] \in {"read", "saved"} THEN raced \cup {f} ELSE raced
    /\ UNCHANGED <<pending, paths, step, up, sends, unsure, faults>>

(* _on_complete without an error: deliver_pending waits for the marker's lock. *)
Complete(t) ==
    /\ up /\ step[t] = "idle" /\ marker \o pending # <<>>
    /\ step' = [step EXCEPT ![t] = "queued"]
    /\ UNCHANGED <<marker, pending, paths, up, histories, faults>>

(* Mutant: only new requests are read. *)
ReadMutant(t) ==
    /\ step[t] = "queued" /\ Holder = {}
    /\ paths' = [paths EXCEPT ![t] = Merge(<<>>, marker)]
    /\ step' = [step EXCEPT ![t] = IF marker = <<>> THEN "idle" ELSE "read"]
    /\ UNCHANGED <<marker, pending, up, histories, faults>>

(* With the lock: both files are read. *)
Read(t) ==
    /\ step[t] = "queued" /\ Holder = {}
    /\ paths' = [paths EXCEPT ![t] = Merge(pending, marker)]
    /\ step' = [step EXCEPT ![t] = IF marker \o pending = <<>> THEN "idle" ELSE "read"]
    /\ UNCHANGED <<marker, pending, up, histories, faults>>

(* _checkpoint, and then the marker is removed. *)
Save(t) ==
    /\ step[t] = "read" /\ step' = [step EXCEPT ![t] = "saved"]
    /\ pending' = paths[t]
    /\ UNCHANGED <<marker, paths, up, histories, faults>>

Unlink(t) ==
    /\ step[t] = "saved" /\ step' = [step EXCEPT ![t] = "sending"]
    /\ marker' = <<>>
    /\ UNCHANGED <<pending, paths, up, histories, faults>>

Head1(t) == Head(paths[t])

(* The first file is posted. *)
Send(t) ==
    /\ step[t] = "sending" /\ Head1(t) \notin Unreadable
    /\ step' = [step EXCEPT ![t] = "sent"]
    /\ sends' = [sends EXCEPT ![Head1(t)] = @ + 1]
    /\ owed' = owed \ {Head1(t)}
    /\ UNCHANGED <<marker, pending, paths, up, raced, requests, unsure, faults>>

(* Mutant: what was sent is struck out when all is sent. *)
StrikeMutant(t) ==
    /\ step[t] = "sent"
    /\ paths' = [paths EXCEPT ![t] = Tail(@)]
    /\ pending' = IF Len(paths[t]) = 1 THEN <<>> ELSE pending
    /\ step' = [step EXCEPT ![t] = IF Len(paths[t]) = 1 THEN "idle" ELSE "sending"]
    /\ UNCHANGED <<marker, up, histories, faults>>

(* It is struck out; with the last one the .pending file goes. *)
Strike(t) ==
    /\ step[t] = "sent"
    /\ paths' = [paths EXCEPT ![t] = Tail(@)]
    /\ pending' = Tail(paths[t])
    /\ step' = [step EXCEPT ![t] = IF Len(paths[t]) = 1 THEN "idle" ELSE "sending"]
    /\ UNCHANGED <<marker, up, histories, faults>>

(* An exception ends the delivery: a write fails, a file cannot be read,   *)
(* or Discord reports an error, perhaps after it posted the file.          *)
Fails(t) ==
    /\ step[t] \in {"read", "saved", "sending", "sent"}
    /\ IF step[t] = "sending" /\ Head1(t) \in Unreadable
         THEN UNCHANGED <<owed, sends, unsure, faults>>
         ELSE /\ faults < MaxFaults /\ faults' = faults + 1
              /\ \E posted \in (IF step[t] = "sending" THEN BOOLEAN ELSE {step[t] = "sent"}) :
                   /\ unsure' = [f \in Files |-> IF posted /\ f = Head1(t) THEN unsure[f] + 1
                                                 ELSE unsure[f]]
                   /\ IF posted /\ step[t] = "sending"
                        THEN /\ sends' = [sends EXCEPT ![Head1(t)] = @ + 1]
                             /\ owed' = owed \ {Head1(t)}
                        ELSE UNCHANGED <<sends, owed>>
    /\ step' = [step EXCEPT ![t] = "idle"] /\ paths' = [paths EXCEPT ![t] = <<>>]
    /\ UNCHANGED <<marker, pending, up, raced, requests>>

Crash ==
    /\ up /\ faults < MaxFaults /\ faults' = faults + 1
    /\ up' = FALSE
    /\ unsure' = [f \in Files |->
                    unsure[f] + Cardinality({t \in Turns : step[t] = "sent" /\ Head1(t) = f})]
    /\ step' = [t \in Turns |-> "idle"] /\ paths' = [t \in Turns |-> <<>>]
    /\ UNCHANGED <<marker, pending, owed, raced, requests, sends>>

Boot ==
    /\ ~up /\ up' = TRUE
    /\ UNCHANGED <<marker, pending, paths, step, histories, faults>>

Deliver(t) == Read(t) \/ Save(t) \/ Unlink(t) \/ Send(t) \/ Strike(t)
              \/ (step[t] = "sending" /\ Head1(t) \in Unreadable /\ Fails(t))

Next ==
    \/ \E f \in Files : Request(f)
    \/ \E t \in Turns : Complete(t) \/ Deliver(t) \/ Fails(t)
    \/ Crash \/ Boot

(* Deliveries go on, the service is restarted and turns keep completing. *)
Fairness ==
    /\ \A t \in Turns : WF_vars(Deliver(t))
    /\ WF_vars(\E t \in Turns : Read(t)) /\ WF_vars(\E t \in Turns : Complete(t)) /\ WF_vars(Boot)

Spec == Init /\ [][Next]_vars
FairSpec == Spec /\ Fairness

-----------------------------------------------------------------------------
(* "Completed checkpoints are never replayed after a later send fails": a  *)
(* file is sent once for a request, and again only when the process or     *)
(* the network stopped between its sending and its checkpoint.             *)
SentOncePerRequest == \A f \in Files : sends[f] <= requests[f] + unsure[f]

(* "A crash between these operations is harmless": a requested file is in  *)
(* one of the two files until it is sent, unless it was requested between  *)
(* the read and the unlink.                                                *)
RequestsSurvive == owed \ raced \subseteq ToSet(marker \o pending)

(* The same for requests at any time: "New markers merge with pending      *)
(* paths" (docs/runtime-reliability.md).                                   *)
NoRequestLost == owed \subseteq ToSet(marker \o pending)

(* A file that can be read is sent if turns go on completing.              *)
EveryFileSent == \A f \in Files \ Unreadable : (f \in owed) ~> (f \notin owed \/ f \in raced)
=============================================================================
