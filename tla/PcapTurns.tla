----------------------------- MODULE PcapTurns -----------------------------
(***************************************************************************)
(* pcapplusplus_repaly.  PcapClient and PcapServer are two processes that  *)
(* walk over the same capture; each sends the packets of its direction,    *)
(* and they take turns by next_packet_index in a shared memory object the  *)
(* client creates.  send_pcap is the older, single program that only waits *)
(* the recorded gaps.                                                      *)
(*                                                                         *)
(* A wait with a deadline may end by its deadline at any moment; waits for *)
(* the peer's packet continue in the same way whether it came or not.      *)
(* Fields of the shared memory that are only written are left out.         *)
(***************************************************************************)
EXTENDS Integers, Sequences, SequencesExt, FiniteSets

CONSTANTS Captures,      \* sequences of [direction, time, len]
          ReplayModes,   \* subset of {"original", "fixed", "floating", "rate"}
          FixedIntervalMs, FloatPercent, TargetBytesPerSec,
          WrappedDelays, \* what int(uint64 difference / 1000) gives when time goes back
          SleepChunk,    \* a delay is slept in pieces of this length
          LongestGap,    \* 10000 in the code
          MaxRuns        \* how often each process is started

VARIABLES cap, replayMode,
          shm,      \* the shared memory objects ever created
          shmName,  \* the one /pcap_replay_shm names, or 0
          proc,     \* the two processes
          onWire,   \* what has been handed to the interface: object and packet
          crashed,  \* some process was killed
          single    \* send_pcap
pairVars == <<cap, replayMode, shm, shmName, proc, onWire, crashed>>
pcapVars == <<pairVars, single>>

Me == {"client", "server"}
N == Len(cap)

SharedMemoryData == [client_ready |-> FALSE, server_ready |-> FALSE, should_terminate |-> FALSE,
                     next |-> 1]
NotRunning == [pc |-> "off", i |-> 0, g |-> 0, left |-> 0, interrupted |-> FALSE, runs |-> 0]

\* Source address = client IP, destination = client IP, or neither.
analyzePacketDirection(i) == cap[i].direction
getClientPackets == {i \in 1..N : analyzePacketDirection(i) = "client"}

PairInit ==
  /\ cap \in Captures /\ replayMode \in ReplayModes
  /\ shm = <<>> /\ shmName = 0
  /\ proc = [me \in Me |-> NotRunning]
  /\ onWire = <<>> /\ crashed = FALSE

At(me, pc) == proc[me].pc = pc
Mine(me) == shm[proc[me].g]
Go(me, pc) == proc' = [proc EXCEPT ![me].pc = pc]
Forward(me) == proc' = [proc EXCEPT ![me].pc = "loop", ![me].i = @ + 1, ![me].left = 0]
Gone(p) == [NotRunning EXCEPT !.runs = p.runs + 1]

(***************************************************************************)
(* Start and end.                                                          *)
(***************************************************************************)
\* SharedMemoryManager(true): an object of that name is unlinked, a new one
\* made.
clientAttach ==
  /\ At("client", "off") /\ proc["client"].runs < MaxRuns["client"]
  /\ shm' = Append(shm, SharedMemoryData)
  /\ shmName' = Len(shm')
  /\ proc' = [proc EXCEPT !["client"].pc = "attached", !["client"].g = Len(shm')]
  /\ UNCHANGED <<cap, replayMode, onWire, crashed>>

\* SharedMemoryManager(false) opens what is there, or fails.
serverAttach ==
  /\ At("server", "off") /\ proc["server"].runs < MaxRuns["server"]
  /\ proc' = IF shmName = 0 THEN [proc EXCEPT !["server"] = Gone(@)]
             ELSE [proc EXCEPT !["server"].pc = "attached", !["server"].g = shmName]
  /\ UNCHANGED <<cap, replayMode, shm, shmName, onWire, crashed>>

\* The end of the process: the client's cleanup() marks and unlinks the
\* object, the server only lets go of it.
clientCleanup ==
  /\ shm' = [shm EXCEPT ![proc["client"].g].should_terminate = TRUE]
  /\ shmName' = 0
  /\ proc' = [proc EXCEPT !["client"] = Gone(@)]
serverCleanup ==
  /\ proc' = [proc EXCEPT !["server"] = Gone(@)]
  /\ UNCHANGED <<shm, shmName>>

\* The capture is analysed and the interface opened; a client without packets
\* of its own gives up.
clientInitialize ==
  /\ At("client", "attached")
  /\ \/ getClientPackets # {} /\ Go("client", "ready") /\ UNCHANGED <<shm, shmName>>
     \/ clientCleanup
  /\ UNCHANGED <<cap, replayMode, onWire, crashed>>
serverInitialize ==
  /\ At("server", "attached")
  /\ \/ /\ shm' = [shm EXCEPT ![proc["server"].g].server_ready = TRUE]
        /\ Go("server", "ready")
        /\ UNCHANGED shmName
     \/ serverCleanup
  /\ UNCHANGED <<cap, replayMode, onWire, crashed>>

\* startReplay() forgets an interrupt that came before it.
serverStart ==
  /\ At("server", "ready")
  /\ proc' = [proc EXCEPT !["server"].pc = "meet", !["server"].interrupted = FALSE]
  /\ UNCHANGED <<cap, replayMode, shm, shmName, onWire, crashed>>

setReady ==
  /\ At("client", "ready")
  /\ shm' = [shm EXCEPT ![proc["client"].g].client_ready = TRUE]
  /\ Go("client", "meet")
  /\ UNCHANGED <<cap, replayMode, shmName, onWire, crashed>>

waitForPeer ==
  /\ At("client", "meet")
  /\ \/ /\ Mine("client").server_ready
        /\ proc' = [proc EXCEPT !["client"].pc = "loop", !["client"].i = 1]
        /\ UNCHANGED <<shm, shmName>>
     \/ \* thirty seconds are over, or should_terminate is set
        ~Mine("client").server_ready /\ clientCleanup
  /\ UNCHANGED <<cap, replayMode, onWire, crashed>>

waitForClient ==
  /\ At("server", "meet")
  /\ \/ /\ ~proc["server"].interrupted /\ Mine("server").client_ready
        /\ proc' = [proc EXCEPT !["server"].pc = "loop", !["server"].i = 1]
        /\ UNCHANGED <<shm, shmName>>
     \/ \* interrupted, thirty seconds are over, or the capture cannot be started
        serverCleanup
  /\ UNCHANGED <<cap, replayMode, onWire, crashed>>

clientFinish ==
  /\ At("client", "done") /\ clientCleanup
  /\ UNCHANGED <<cap, replayMode, onWire, crashed>>
serverFinish ==
  /\ At("server", "done") /\ serverCleanup
  /\ UNCHANGED <<cap, replayMode, onWire, crashed>>

clientSignal ==
  /\ ~At("client", "off") /\ ~proc["client"].interrupted
  /\ proc' = [proc EXCEPT !["client"].interrupted = TRUE]
  /\ shm' = [shm EXCEPT ![proc["client"].g].should_terminate = TRUE]
  /\ UNCHANGED <<cap, replayMode, shmName, onWire, crashed>>
serverSignal ==
  /\ ~At("server", "off") /\ ~proc["server"].interrupted
  /\ proc' = [proc EXCEPT !["server"].interrupted = TRUE]
  /\ UNCHANGED <<cap, replayMode, shm, shmName, onWire, crashed>>

Kill(me) ==
  /\ ~At(me, "off") /\ ~crashed
  /\ proc' = [proc EXCEPT ![me] = Gone(@)]
  /\ crashed' = TRUE
  /\ UNCHANGED <<cap, replayMode, shm, shmName, onWire>>

(***************************************************************************)
(* The replay loop, the same in both processes but for switchToReceiveMode.*)
(***************************************************************************)
NextPacket(me) ==
  /\ At(me, "loop")
  /\ Go(me, IF proc[me].i > N \/ proc[me].interrupted THEN "done"
            ELSE IF analyzePacketDirection(proc[me].i) = me THEN "turn" ELSE "watch")
  /\ UNCHANGED <<cap, replayMode, shm, shmName, onWire, crashed>>
clientNextPacket == NextPacket("client")
serverNextPacket == NextPacket("server")

\* MUTANT: the turn is taken when the index has come up to this packet or
\* passed beyond the one before it.
TurnPassed(me) ==
  /\ At(me, "turn")
  /\ \/ ~proc[me].interrupted /\ Mine(me).next <= proc[me].i /\ Go(me, "send")
     \/ Forward(me)
  /\ UNCHANGED <<cap, replayMode, shm, shmName, onWire, crashed>>
Turn(me) ==
  /\ At(me, "turn")
  /\ \/ ~proc[me].interrupted /\ Mine(me).next = proc[me].i /\ Go(me, "send")
     \/ Forward(me)  \* one second is over, or interrupted: the packet is skipped
  /\ UNCHANGED <<cap, replayMode, shm, shmName, onWire, crashed>>
waitForClientTurn == Turn("client")
waitForServerTurn == Turn("server")

Watch(me) ==
  /\ At(me, "watch") /\ Forward(me)
  /\ UNCHANGED <<cap, replayMode, shm, shmName, onWire, crashed>>
waitForServerPacket == Watch("client")
waitForClientPacket == Watch("server")

\* The server's capture thread keeps the client's packets, and nothing in the replay
\* loop takes one out again: they are left out.
SendOut(me) ==
  /\ At(me, "send")
  /\ onWire' = Append(onWire, [g |-> proc[me].g, i |-> proc[me].i])
  /\ Go(me, "store")
  /\ UNCHANGED <<cap, replayMode, shm, shmName, crashed>>
clientSendPacket == SendOut("client")
serverSendPacket == SendOut("server")

\* The delay up to the next packet, unsigned: when the time goes back the
\* difference wraps and the cast to int leaves anything.
Gaps(i) ==
  CASE replayMode = "original" ->
         IF cap[i + 1].time >= cap[i].time THEN {cap[i + 1].time - cap[i].time} ELSE WrappedDelays
    [] replayMode = "fixed" -> {FixedIntervalMs}
    [] replayMode = "floating" ->
         IF cap[i + 1].time >= cap[i].time
         THEN LET d == cap[i + 1].time - cap[i].time
              IN (d * (100 - FloatPercent)) \div 100 .. (d * (100 + FloatPercent)) \div 100
         ELSE WrappedDelays
    [] replayMode = "rate" -> {(cap[i].len * 1000) \div TargetBytesPerSec}
clientCalculateDelayToNextPacket(i) == Gaps(i)
serverCalculateDelayToNextPacket(i) == Gaps(i)

NextIsMine(me) == proc[me].i < N /\ analyzePacketDirection(proc[me].i + 1) = me

\* The index is stored after the packet is out, failed or not.
Store(me, gaps, otherwise) ==
  /\ At(me, "store")
  /\ shm' = [shm EXCEPT ![proc[me].g].next = proc[me].i + 1]
  /\ IF NextIsMine(me)
     THEN \E d \in gaps :
            proc' = [proc EXCEPT ![me].pc = "delay", ![me].left = d]
     ELSE otherwise
  /\ UNCHANGED <<cap, replayMode, shmName, onWire, crashed>>
sendClientPacket == Store("client", clientCalculateDelayToNextPacket(proc["client"].i), Forward("client"))
sendServerPacket == Store("server", serverCalculateDelayToNextPacket(proc["server"].i), Go("server", "switch"))

\* The server stores the index a second time; the client may have moved on.
switchToReceiveMode ==
  /\ At("server", "switch")
  /\ shm' = [shm EXCEPT ![proc["server"].g].next = proc["server"].i + 1]
  /\ Forward("server")
  /\ UNCHANGED <<cap, replayMode, shmName, onWire, crashed>>

Delay(me) ==
  /\ At(me, "delay")
  /\ IF proc[me].left > 0 /\ ~proc[me].interrupted
     THEN proc' = [proc EXCEPT ![me].left = IF @ > SleepChunk THEN @ - SleepChunk ELSE 0]
     ELSE Forward(me)
  /\ UNCHANGED <<cap, replayMode, shm, shmName, onWire, crashed>>
clientExecuteDelay == Delay("client")
serverExecuteDelay == Delay("server")

clientStep == \/ clientAttach \/ clientInitialize \/ setReady \/ waitForPeer \/ clientNextPacket
              \/ waitForClientTurn \/ waitForServerPacket \/ clientSendPacket
              \/ sendClientPacket \/ clientExecuteDelay \/ clientFinish
serverStep == \/ serverAttach \/ serverInitialize \/ serverStart \/ waitForClient \/ serverNextPacket
              \/ waitForServerTurn \/ waitForClientPacket \/ serverSendPacket
              \/ sendServerPacket \/ switchToReceiveMode
              \/ serverExecuteDelay \/ serverFinish
PairNext == clientStep \/ serverStep \/ clientSignal \/ serverSignal
            \/ \E me \in Me : Kill(me)

(***************************************************************************)
(* send_pcap: delays are computed beforehand, then the packets are sent.   *)
(***************************************************************************)
SingleInit == single = [i |-> 0, delays |-> <<>>, left |-> 0, clock |-> 0, interrupted |-> FALSE]

Clamp(d) == IF d < 0 THEN 0 ELSE IF d > LongestGap THEN LongestGap ELSE d
BytesBefore(i) == FoldLeftDomain(LAMBDA sum, k : IF k < i THEN sum + cap[k].len ELSE sum, 0, cap)

\* MUTANT: each delay is rounded down by itself.
RateDelayRounded(i) == (cap[i - 1].len * 1000) \div TargetBytesPerSec
\* Difference of two rounded times, so that nothing is lost.
RateDelay(i) == (BytesBefore(i) * 1000) \div TargetBytesPerSec
                  - (BytesBefore(i - 1) * 1000) \div TargetBytesPerSec

DelayChoices(i) ==
  IF i = 1 THEN {0}
  ELSE LET d == Clamp(cap[i].time - cap[i - 1].time)
       IN CASE replayMode = "original" -> {d}
            [] replayMode = "fixed" -> {FixedIntervalMs}
            [] replayMode = "floating" ->
                 (d * (100 - FloatPercent)) \div 100 .. (d * (100 + FloatPercent)) \div 100
            [] replayMode = "rate" -> {RateDelay(i)}

Preprocess ==
  /\ single.i = 0
  /\ \E ds \in [1..N -> UNION {DelayChoices(i) : i \in 1..N}] :
       /\ \A i \in 1..N : ds[i] \in DelayChoices(i)
       /\ single' = [single EXCEPT !.i = 1, !.delays = ds]
  /\ UNCHANGED pairVars

\* An empty packet is skipped together with its delay; the delay of a packet
\* is waited after it was sent.
SendOne ==
  /\ single.i \in 1..N /\ single.left = 0 /\ ~single.interrupted
  /\ single' =
       IF cap[single.i].len = 0 THEN [single EXCEPT !.i = @ + 1]
       ELSE [single EXCEPT !.i = @ + 1,
                           !.left = IF single.i > 1 THEN single.delays[single.i] ELSE 0]
  /\ UNCHANGED pairVars
SleepOne ==
  /\ single.left > 0 /\ ~single.interrupted
  /\ LET d == IF single.left > SleepChunk THEN SleepChunk ELSE single.left
     IN single' = [single EXCEPT !.left = @ - d, !.clock = @ + d]
  /\ UNCHANGED pairVars
Interrupt ==
  /\ single.i > 0 /\ ~single.interrupted /\ single' = [single EXCEPT !.interrupted = TRUE]
  /\ UNCHANGED pairVars
SingleNext == Preprocess \/ SendOne \/ SleepOne \/ Interrupt

PairFairness == WF_pcapVars(clientStep /\ UNCHANGED single) /\ WF_pcapVars(serverStep /\ UNCHANGED single)
TurnsSpec == PairInit /\ SingleInit /\ [][PairNext /\ UNCHANGED single]_pcapVars /\ PairFairness
SendPcapSpec == PairInit /\ SingleInit /\ [][SingleNext]_pcapVars

(***************************************************************************)
(* Properties.                                                             *)
(***************************************************************************)
\* Whatever deadlines pass and whoever is killed or restarted, the packets
\* that go out under one shared memory object are the capture from its
\* beginning, without a gap and in order; a packet goes out twice only when
\* its sender was killed between sending it and passing the turn on.
WireFollowsCapture ==
  \A g \in 1..Len(shm) :
    LET sent == SelectSeq(onWire, LAMBDA w : w.g = g)
    IN \A n \in 1..Len(sent) :
         IF n = 1 THEN sent[1].i = 1
         ELSE sent[n].i = sent[n - 1].i + 1 \/ (crashed /\ sent[n].i = sent[n - 1].i)

\* At constant rate send_pcap has waited, after its last packet, exactly the
\* time that the bytes before the last packet take, rounded down once.
RateIsKept ==
  (replayMode = "rate" /\ single.i > N /\ single.left = 0 /\ ~single.interrupted
     /\ \A i \in 1..N : cap[i].len > 0)
  => single.clock = (BytesBefore(N) * 1000) \div TargetBytesPerSec
=============================================================================
