---------------------------- MODULE MarkerVision ----------------------------
(***************************************************************************)
(* How a camera image becomes a marker observation: the buffer of images   *)
(* (RosFrameSource), the thread that keeps the latest frame                *)
(* (CameraManager), and the workers that look for a marker in it           *)
(* (ConfiguredVision), one per request, with a queue each.                 *)
(*                                                                         *)
(* A tick of the clock is 500 ms, the age at which a frame is too old;     *)
(* an image is known by the tick of its exposure.  A timeout of a worker   *)
(* stops the acquisition, and so does a frame that expired: it is a        *)
(* TimeoutError.  The next request starts it again, once it is dead.       *)
(***************************************************************************)
EXTENDS Naturals, Sequences, FiniteSets

CONSTANTS
    LastTick,       \* bound: the clock stops here
    MaxRequests,    \* bound: vision requests
    BufferSize      \* images kept by the frame source

ASSUME VisionAssumption ==
    {LastTick, MaxRequests, BufferSize} \subseteq Nat \ {0}

VARIABLES
    now,        \* the simulation clock
    images,     \* the buffered exposures, and the newest that ever arrived
    taken,      \* last_timestamp_ns of the frame source, 0: none
    acq,        \* the acquisition thread: its step and the candidate it holds
    acqStop,    \* its stop event
    latest,     \* the latest observation: its sequence number and exposure
    workers,    \* per request: its step, the sequence it is after, what it holds, its stop event
    request,    \* the last request, 0: none
    results     \* per request: the queue of its worker

visionVars == <<now, images, taken, acq, acqStop, latest, workers, request, results>>

Requests == 1 .. MaxRequests
NoFrame == [seq |-> 0, exp |-> 0]
FrameOK(f) == f.seq \in 0 .. LastTick + 1 /\ f.exp \in 0 .. LastTick + 1
Stale(exposure) == now > exposure + 1
Higher(a, b) == IF a > b THEN a ELSE b

VisionTypeOK ==
    /\ now \in 1 .. LastTick /\ taken \in 0 .. LastTick + 1
    /\ images.kept \subseteq 1 .. LastTick + 1 /\ Cardinality(images.kept) <= BufferSize
    /\ images.last \in 0 .. LastTick + 1
    /\ acq.pc \in {"none", "capture", "accept", "dead"} /\ acq.exp \in 0 .. LastTick + 1
    /\ acqStop \in BOOLEAN /\ FrameOK(latest) /\ request \in 0 .. MaxRequests
    /\ \A k \in Requests :
         /\ workers[k].pc \in {"none", "ask", "wait", "detect", "dead"}
         /\ workers[k].after \in 0 .. LastTick + 1 /\ FrameOK(workers[k].frame)
         /\ workers[k].stop \in BOOLEAN
         /\ \A i \in DOMAIN results[k] : FrameOK(results[k][i])

VisionInit ==
    /\ now = 1 /\ images = [kept |-> {}, last |-> 0] /\ taken = 0
    /\ acq = [pc |-> "none", exp |-> 0] /\ acqStop = FALSE /\ latest = NoFrame
    /\ workers = [k \in Requests |-> [pc |-> "none", after |-> 0, frame |-> NoFrame, stop |-> FALSE]]
    /\ request = 0 /\ results = [k \in Requests |-> <<>>]

-----------------------------------------------------------------------------
(* RosFrameSource.                                                          *)

VisionTick ==
    /\ now < LastTick /\ now' = now + 1
    /\ UNCHANGED <<images, taken, acq, acqStop, latest, workers, request, results>>

\* accept_image: an image may come before the clock shows its time; only the newest stay.
AcceptImage ==
    /\ \E e \in {now, now + 1} :
         /\ e > images.last
         /\ LET kept == IF e > taken THEN images.kept \cup {e} ELSE images.kept
            IN images' = [kept |-> {i \in kept : Cardinality({j \in kept : j > i}) < BufferSize}, last |-> e]
    /\ UNCHANGED <<now, taken, acq, acqStop, latest, workers, request, results>>

\* capture_frame, which waits for an image the clock has reached and takes the newest;
\* one that is too old is dropped, and the wait goes on.
CaptureFrame ==
    /\ acq.pc = "capture"
    /\ LET usable == {e \in images.kept : e > taken /\ e <= now} IN
       /\ usable # {}
       /\ LET e == CHOOSE x \in usable : \A y \in usable : x >= y IN
          /\ taken' = e /\ images' = [images EXCEPT !.kept = {i \in @ : i > e}]
          /\ acq' = IF Stale(e) THEN acq
                    ELSE [pc |-> IF acqStop THEN "dead" ELSE "accept", exp |-> e]
    /\ UNCHANGED <<now, acqStop, latest, workers, request, results>>

-----------------------------------------------------------------------------
(* CameraManager.                                                           *)

\* _accept_candidate: the clock went on, and a stop may have come.
AcceptCandidate ==
    /\ acq.pc = "accept"
    /\ IF acqStop THEN acq' = [acq EXCEPT !.pc = "dead"] /\ UNCHANGED latest
       ELSE /\ acq' = [acq EXCEPT !.pc = "capture"]
            /\ latest' = IF Stale(acq.exp) THEN latest
                         ELSE [seq |-> latest.seq + 1, exp |-> acq.exp]
    /\ UNCHANGED <<now, images, taken, acqStop, workers, request, results>>

\* start_acquisition: a thread that is alive is left alone, even if it was told to stop.
StartAcquisition ==
    IF acq.pc \in {"none", "dead"}
    THEN acq' = [acq EXCEPT !.pc = "capture"] /\ acqStop' = FALSE
    ELSE UNCHANGED <<acq, acqStop>>

-----------------------------------------------------------------------------
(* ConfiguredVision.                                                        *)

\* The top of a worker's loop.
WorkerAsks(k) ==
    /\ workers[k].pc = "ask"
    /\ IF workers[k].stop
       THEN workers' = [workers EXCEPT ![k].pc = "dead"] /\ UNCHANGED <<acq, acqStop>>
       ELSE StartAcquisition /\ workers' = [workers EXCEPT ![k].pc = "wait"]
    /\ UNCHANGED <<now, images, taken, latest, request, results>>

\* latest_observation: a newer frame, or one that expired on the way.
WorkerGets(k) ==
    /\ workers[k].pc = "wait" /\ latest.seq > workers[k].after
    /\ IF Stale(latest.exp)
       THEN /\ workers' = [workers EXCEPT ![k].pc = "ask", ![k].after = latest.seq]
            /\ acqStop' = TRUE
       ELSE /\ workers' = [workers EXCEPT ![k].pc = "detect", ![k].frame = latest]
            /\ UNCHANGED acqStop
    /\ UNCHANGED <<now, images, taken, acq, latest, request, results>>

WorkerTimesOut(k) ==
    /\ workers[k].pc = "wait" /\ latest.seq <= workers[k].after
    /\ workers' = [workers EXCEPT ![k].pc = "ask"] /\ acqStop' = TRUE
    /\ UNCHANGED <<now, images, taken, acq, latest, request, results>>

\* The frame is searched for the marker.  One that expired before the search raises and
\* ends the worker, with the error (the frame NoFrame) in the queue; one that expires
\* during it is skipped.
WorkerDetects(k) ==
    /\ workers[k].pc = "detect"
    /\ LET f == workers[k].frame IN
       IF workers[k].stop
       THEN workers' = [workers EXCEPT ![k].pc = "dead"] /\ UNCHANGED results
       ELSE IF Stale(f.exp)
       THEN \/ /\ workers' = [workers EXCEPT ![k].pc = "dead"]
               /\ results' = [results EXCEPT ![k] = Append(@, NoFrame)]
            \/ /\ workers' = [workers EXCEPT ![k].pc = "ask", ![k].after = f.seq]
               /\ UNCHANGED results
       ELSE /\ workers' = [workers EXCEPT ![k].pc = "ask", ![k].after = f.seq]
            /\ results' \in {results, [results EXCEPT ![k] = Append(@, f)]}
    /\ UNCHANGED <<now, images, taken, acq, acqStop, latest, request>>

\* request(): the worker before it is told to stop, and gets no more of its queue.
Request(after) ==
    /\ request < MaxRequests /\ request' = request + 1
    /\ workers' = [k \in Requests |->
         IF k = request THEN [workers[k] EXCEPT !.stop = TRUE]
         ELSE IF k = request + 1 THEN [workers[k] EXCEPT !.pc = "ask", !.after = Higher(after, latest.seq)]
         ELSE workers[k]]

Cancel == workers' = [k \in Requests |-> IF k = request THEN [workers[k] EXCEPT !.stop = TRUE] ELSE workers[k]]

VisionThreads ==
    \/ CaptureFrame \/ AcceptCandidate
    \/ \E k \in Requests : WorkerAsks(k) \/ WorkerGets(k) \/ WorkerTimesOut(k) \/ WorkerDetects(k)
=============================================================================
