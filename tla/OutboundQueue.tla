--------------------------- MODULE OutboundQueue ---------------------------
(***************************************************************************)
(* OutboundQueue and the SingleWriter that drains it.  EnqueueBatch and    *)
(* Close change the queue under its mutex and signal the one-slot wake     *)
(* channel afterwards, without the mutex; Next examines the queue under    *)
(* the mutex and then, without it, waits for the channel.  Producers are   *)
(* any number of goroutines, the writer is one.                            *)
(***************************************************************************)
EXTENDS Naturals, Sequences

CONSTANTS
    Producers,   \* goroutines that call EnqueueBatch or Close
    Batches,     \* the frame sequences they enqueue
    MaxFrames    \* bound: frames accepted in a behaviour

QueueFrames == UNION {{b[n] : n \in DOMAIN b} : b \in Batches}

ASSUME QueueAssumption ==
    /\ MaxFrames \in Nat
    /\ Batches \subseteq Seq(QueueFrames) \ {<<>>}

VARIABLES
    frames, closed,   \* the fields of OutboundQueue
    wake,             \* the wake channel holds its token
    signalling,       \* producers between unlock and the signal
    writer,           \* where SingleWriter.Run is
    sent              \* history: the frames Next returned, in order

queueVars == <<frames, closed, wake, signalling, writer, sent>>

QueueTypeOK ==
    /\ frames \in Seq(QueueFrames)
    /\ closed \in BOOLEAN
    /\ wake \in BOOLEAN
    /\ signalling \subseteq Producers
    /\ writer \in {"next", "unlocked", "wait", "send", "closed", "failed"}
    /\ sent \in Seq(QueueFrames)

QueueInit ==
    /\ frames = <<>> /\ closed = FALSE /\ wake = FALSE
    /\ signalling = {}
    /\ writer = "next"
    /\ sent = <<>>

-----------------------------------------------------------------------------

\* Mutant: a batch is inserted in front of frames that are still queued.
MutAppendBatch(batch) == batch \o frames

AppendBatch(batch) == frames \o batch

\* EnqueueBatch up to its unlock; a closed queue refuses without a change.
EnqueueBatch(p, batch) ==
    /\ p \notin signalling
    /\ ~closed
    /\ Len(sent) + Len(frames) + Len(batch) <= MaxFrames
    /\ frames' = AppendBatch(batch)
    /\ signalling' = signalling \cup {p}
    /\ UNCHANGED <<closed, wake, writer, sent>>

\* Close up to its unlock.
Close(p) ==
    /\ p \notin signalling
    /\ closed' = TRUE
    /\ signalling' = signalling \cup {p}
    /\ UNCHANGED <<frames, wake, writer, sent>>

\* Mutant: the token is dropped unless the writer is already waiting.
MutToken == wake \/ writer = "wait"

\* The channel's buffer keeps a token that nobody is waiting for.
Token == TRUE

\* The non-blocking send on wake; a full channel stays as it is.
Wake(p) ==
    /\ p \in signalling
    /\ wake' = Token
    /\ signalling' = signalling \ {p}
    /\ UNCHANGED <<frames, closed, writer, sent>>

\* Mutant: a closed queue ends the writer although frames are left.
MutDrained == frames = <<>> \/ closed

\* Next has nothing to return.
Drained == frames = <<>>

\* Mutant: the slot is cleared before the frame is copied out of it.
MutHeadFrame == <<>>

HeadFrame == Head(frames)

\* Next returns the head of the queue.
NextFrame ==
    /\ writer = "next"
    /\ ~Drained
    /\ sent' = Append(sent, HeadFrame)
    /\ frames' = Tail(frames)
    /\ writer' = "send"
    /\ UNCHANGED <<closed, wake, signalling>>

\* Next returns ErrOutboundClosed, and with it Run, or unlocks to wait.
NextEmpty ==
    /\ writer = "next"
    /\ Drained
    /\ writer' = IF closed THEN "closed" ELSE "unlocked"
    /\ UNCHANGED <<frames, closed, wake, signalling, sent>>

\* Next reaches its select.
Wait ==
    /\ writer = "unlocked"
    /\ writer' = "wait"
    /\ UNCHANGED <<frames, closed, wake, signalling, sent>>

Awake ==
    /\ writer = "wait"
    /\ wake
    /\ wake' = FALSE
    /\ writer' = "next"
    /\ UNCHANGED <<frames, closed, signalling, sent>>

\* Run encodes the frame and hands it to the ByteSender.
Send ==
    /\ writer = "send"
    /\ writer' = "next"
    /\ UNCHANGED <<frames, closed, wake, signalling, sent>>

\* The context ends while Next waits, or Encode or Send fails: Run returns.
WriterFails ==
    /\ writer \in {"wait", "send"}
    /\ writer' = "failed"
    /\ UNCHANGED <<frames, closed, wake, signalling, sent>>

Writer == NextFrame \/ NextEmpty \/ Wait \/ Awake \/ Send

QueueNext ==
    \/ \E p \in Producers :
          \/ \E b \in Batches : EnqueueBatch(p, b)
          \/ Close(p)
          \/ Wake(p)
    \/ Writer
    \/ WriterFails

\* Producers finish the calls they began and the writer's goroutine runs.
QueueSpec ==
    /\ QueueInit /\ [][QueueNext]_queueVars
    /\ WF_queueVars(Writer)
    /\ \A p \in Producers : WF_queueVars(Wake(p))

-----------------------------------------------------------------------------
(* Properties.                                                             *)

Fifo == INSTANCE OutboundFifo WITH contents <- frames, out <- sent

\* The queue is a FIFO of indivisible batches: whatever the interleaving of
\* producers, Close and writer, frames leave in the order in which whole
\* batches were accepted and nothing is accepted after Close.
ImplementsFifo == Fifo!FifoSpec

\* The writer never sleeps on work: while it is about to wait or waiting, and
\* there are frames or the queue is closed, the wake channel holds its token or
\* some producer has still to put it there.
WakePending ==
    writer \in {"unlocked", "wait"} /\ (frames # <<>> \/ closed)
        => wake \/ signalling # {}

\* No wake-up is lost: a frame accepted by EnqueueBatch does not stay queued
\* for ever, unless the writer stopped on an error of its own.
EveryFrameLeaves ==
    \A n \in 1..MaxFrames :
        Len(sent) + Len(frames) >= n ~> (Len(sent) >= n \/ writer = "failed")

\* Close ends the writer, and not before every accepted frame was returned.
CloseEndsWriter ==
    closed ~> ((writer = "closed" /\ frames = <<>>) \/ writer = "failed")

=============================================================================
