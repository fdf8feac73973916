---------------------------- MODULE LabelWatch ----------------------------
(***************************************************************************)
(* Client.WatchMatches of the gRPC label store client                      *)
(* (src/pkg/grpc/labelstore/client/client.go).                             *)
(*                                                                         *)
(* Three goroutines share a context: the canceller, which waits for quitCh *)
(* to close and cancels the context; the caller, which opens the stream    *)
(* and returns; and the watcher, which loops on Recv, forwards each        *)
(* response on outCh (sendOnChannel) and, when the stream breaks, sleeps   *)
(* and reopens it until that succeeds.  A Recv that fails with             *)
(* codes.Canceled ends the watcher, which closes outCh.                    *)
(***************************************************************************)

EXTENDS Naturals

CONSTANT MaxLabelChanges  \* bound: changes to the labels the selector matches

ASSUME MaxLabelChangesAssumption == MaxLabelChanges \in Nat

VARIABLES
  labels,     \* version of the matching labels held by the server
  seen,       \* version of the last []labels.Labeled the consumer received
  quit,       \* quitCh has been closed by the consumer
  cancelled,  \* the RPC context has been cancelled (cancelFunc called)
  canceller,  \* the goroutine waiting on quitCh: "waiting" or "done"
  phase,      \* the caller, then the watcher: see Phases
  resp        \* the response in the watcher's hands, or NoResp

vars == <<labels, seen, quit, cancelled, canceller, phase, resp>>

(***************************************************************************)
(* "call": the first WatchMatches RPC is being opened; "failed": it failed *)
(* and WatchMatches returned the error; "recv": the watcher is in Recv;    *)
(* "send": in sendOnChannel; "sleep": sleeping before a new RPC;          *)
(* "restart": opening a new RPC; "done": returned, outCh closed.           *)
(***************************************************************************)
Phases == {"call", "failed", "recv", "send", "sleep", "restart", "done"}

(***************************************************************************)
(* A WatchMatchesResponse: the version of the label set it carries, and    *)
(* whether all its label types are known (labels.AsType accepts them).     *)
(***************************************************************************)
Responses == [v : 0..MaxLabelChanges, known : BOOLEAN]
NoResp == [v |-> 0, known |-> FALSE, none |-> TRUE]

-----------------------------------------------------------------------------
(* The canceller: <-quitCh, then cancelFunc(). *)
CancelOnQuit ==
  /\ canceller = "waiting"
  /\ quit
  /\ cancelled' = TRUE
  /\ canceller' = "done"
  /\ UNCHANGED <<labels, seen, quit, phase, resp>>

(***************************************************************************)
(* The first RPC.  On a cancelled context it fails; otherwise it may fail  *)
(* or open the stream.  On failure the context is cancelled and the error *)
(* returned; on success the watcher goroutine starts.                      *)
(***************************************************************************)
OpenStream(ok) ==
  /\ phase = "call"
  /\ IF ok /\ ~cancelled
     THEN /\ phase' = "recv"
          /\ UNCHANGED cancelled
     ELSE /\ phase' = "failed"
          /\ cancelled' = TRUE
  /\ UNCHANGED <<labels, seen, quit, canceller, resp>>

(* Mutant: every stream error ends the watcher, not only codes.Canceled. *)
RecvAnyErrorEnds(r) ==
  /\ phase = "recv"
  /\ \/ /\ ~cancelled
        /\ r \in Responses
        /\ r.v = labels
        /\ phase' = "send"
        /\ resp' = r
     \/ /\ r = NoResp
        /\ phase' = "done"
        /\ UNCHANGED resp
  /\ UNCHANGED <<labels, seen, quit, cancelled, canceller>>

(***************************************************************************)
(* One Recv.  On a cancelled context it fails with codes.Canceled and the  *)
(* watcher returns.  Otherwise it delivers a response r, or fails with     *)
(* another code (r = NoResp) and the watcher goes to its retry loop.       *)
(***************************************************************************)
Recv(r) ==
  /\ phase = "recv"
  /\ \/ /\ cancelled
        /\ r = NoResp
        /\ phase' = "done"
        /\ UNCHANGED resp
     \/ /\ ~cancelled
        /\ r \in Responses
        /\ r.v = labels
        /\ phase' = "send"
        /\ resp' = r
     \/ /\ ~cancelled
        /\ r = NoResp
        /\ phase' = "sleep"
        /\ UNCHANGED resp
  /\ UNCHANGED <<labels, seen, quit, cancelled, canceller>>

(* sendOnChannel drops a response with an unknown label type. *)
DropResponse ==
  /\ phase = "send"
  /\ resp \in Responses
  /\ ~resp.known
  /\ phase' = "recv"
  /\ resp' = NoResp
  /\ UNCHANGED <<labels, seen, quit, cancelled, canceller>>

(* sendOnChannel: the consumer receives the response on outCh. *)
Deliver ==
  /\ phase = "send"
  /\ resp \in Responses
  /\ resp.known
  /\ phase' = "recv"
  /\ seen' = resp.v
  /\ resp' = NoResp
  /\ UNCHANGED <<labels, quit, cancelled, canceller>>

(* sendOnChannel: quitCh is closed, so the response is abandoned. *)
AbandonOnQuit ==
  /\ phase = "send"
  /\ resp \in Responses
  /\ resp.known
  /\ quit
  /\ phase' = "recv"
  /\ resp' = NoResp
  /\ UNCHANGED <<labels, seen, quit, cancelled, canceller>>

(* time.Sleep(2 * time.Second) in the retry loop. *)
RetrySleep ==
  /\ phase = "sleep"
  /\ phase' = "restart"
  /\ UNCHANGED <<labels, seen, quit, cancelled, canceller, resp>>

(***************************************************************************)
(* A new WatchMatches RPC in the retry loop: it fails on a cancelled       *)
(* context, and may fail or succeed otherwise.  Only success leaves the   *)
(* loop; a failure sleeps and tries again.                                 *)
(***************************************************************************)
RestartStream(ok) ==
  /\ phase = "restart"
  /\ phase' = IF ok /\ ~cancelled THEN "recv" ELSE "sleep"
  /\ UNCHANGED <<labels, seen, quit, cancelled, canceller, resp>>

(* The consumer closes quitCh. *)
Quit ==
  /\ ~quit
  /\ quit' = TRUE
  /\ UNCHANGED <<labels, seen, cancelled, canceller, phase, resp>>

(* The labels matching the selector change on the server. *)
LabelChange ==
  /\ labels < MaxLabelChanges
  /\ labels' = labels + 1
  /\ UNCHANGED <<seen, quit, cancelled, canceller, phase, resp>>

(* WatchMatches has returned and its goroutines have exited. *)
Terminated ==
  /\ phase \in {"failed", "done"}
  /\ canceller = "done"
  /\ UNCHANGED vars

-----------------------------------------------------------------------------
Init ==
  /\ labels = 0
  /\ seen = 0
  /\ quit = FALSE
  /\ cancelled = FALSE
  /\ canceller = "waiting"
  /\ phase = "call"
  /\ resp = NoResp

Watcher ==
  \/ \E r \in Responses \cup {NoResp} : Recv(r)
  \/ DropResponse
  \/ Deliver
  \/ AbandonOnQuit
  \/ RetrySleep
  \/ \E ok \in BOOLEAN : RestartStream(ok)

Next ==
  \/ CancelOnQuit
  \/ \E ok \in BOOLEAN : OpenStream(ok)
  \/ Watcher
  \/ Quit
  \/ LabelChange
  \/ Terminated

(***************************************************************************)
(* Fairness: the goroutines are scheduled, so the canceller, the caller    *)
(* and the watcher's steps are weakly fair; Recv and the RPCs return (the  *)
(* context bounds them once cancelled).  The consumer's reads and its     *)
(* closing of quitCh get no fairness.                                      *)
(***************************************************************************)
Fairness ==
  /\ WF_vars(CancelOnQuit)
  /\ WF_vars(\E ok \in BOOLEAN : OpenStream(ok))
  /\ WF_vars(\E r \in Responses \cup {NoResp} : Recv(r))
  /\ WF_vars(DropResponse)
  /\ WF_vars(AbandonOnQuit)
  /\ WF_vars(RetrySleep)
  /\ WF_vars(\E ok \in BOOLEAN : RestartStream(ok))

Spec == Init /\ [][Next]_vars /\ Fairness

-----------------------------------------------------------------------------
(* Every variable holds a value of its type. *)
TypeOK ==
  /\ labels \in 0..MaxLabelChanges
  /\ seen \in 0..MaxLabelChanges
  /\ quit \in BOOLEAN
  /\ cancelled \in BOOLEAN
  /\ canceller \in {"waiting", "done"}
  /\ phase \in Phases
  /\ resp \in Responses \cup {NoResp}

(***************************************************************************)
(* outCh is closed only after the consumer closed quitCh: a broken stream, *)
(* a failed restart or a dropped response never ends the watch, so a       *)
(* consumer that sees outCh closed knows it asked for it.                  *)
(***************************************************************************)
ClosedOnlyAfterQuit ==
  phase = "done" => quit

(***************************************************************************)
(* The comment at the Canceled check: closing quitCh cancels the RPC and  *)
(* the watcher terminates, closing outCh.                                  *)
(***************************************************************************)
QuitEndsWatch ==
  quit ~> (phase \in {"done", "failed"})

=============================================================================
