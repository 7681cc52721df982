----------------------------- MODULE PpdPlanifier -----------------------------
(***************************************************************************)
(* The planifier of a disk process (grage-ppd): the threads that serve the *)
(* clients and the one that serves the console insert jobs in the sorted    *)
(* list of jobs, the worker takes the first one and executes it.  The       *)
(* order depends on the position of the head, which the worker (and a       *)
(* trace of the console) moves without the mutex of the list.               *)
(* In listen mode each client is a connection of PFS; in connect mode the   *)
(* only client is PRAID.                                                    *)
(***************************************************************************)
EXTENDS Integers, FiniteSets, SequencesExt

CONSTANTS
    Client,          \* connections that send jobs
    JobSector,       \* sectors they ask for
    TraceSector,     \* numbers a user asks the console to trace
    TrackSectors,    \* getPpdDiskSector
    Cylinders,       \* getPpdDiskCilinder
    ConfigAddress,   \* the text of Cylinders, taken for a number (an address)
    TrackJump,       \* sectors that pass under the head while it changes track
    Width,           \* 2^32, the values of a uint32
    MaxJobs,         \* jobs put in the list
    MaxTraces        \* traces the user asks for

Console == "console"
Thread == Client \cup {Console}

ASSUME PlanifierAssumption ==
    /\ Console \notin Client
    /\ {TrackSectors, Cylinders, ConfigAddress, TrackJump, Width} \subseteq Nat \ {0}
    /\ {MaxJobs, MaxTraces} \subseteq Nat
    /\ JobSector \subseteq 0 .. TrackSectors * Cylinders - 1
    /\ TraceSector \subseteq Nat
    /\ TrackSectors * Cylinders <= Width
    /\ TrackSectors * Cylinders <= ConfigAddress

VARIABLES
    algorithm,     \* the sorting criterion of the list
    pooled,        \* connections serve more than one request
    conn,          \* what the thread of each connection is doing
    asked,         \* the job each thread is putting in the list
    insertion,     \* the insertion that holds the mutex of the list
    queue,         \* jobsQueue
    worker,        \* the thread that executes jobs
    head,          \* posicionActual
    perCylinder,   \* cantidadSectoresPorCilindro
    console,       \* what ppdConsoleServiceThread is doing
    tool,          \* the console process waits for the end of a trace
    trace,         \* the trace under way
    volume, answers,    \* the disk, and what was sent to the clients
    received, traces,   \* jobs and traces so far
    lost, loose         \* history: jobs that fell off the list, and ids of those
                        \* that were put in it while three others were held

listVars == <<asked, insertion, queue, lost>>
headVars == <<head, perCylinder>>
consoleVars == <<console, tool, trace, traces>>
configVars == <<algorithm, pooled>>
vars == <<configVars, conn, listVars, worker, headVars, consoleVars, volume,
          answers, received, loose>>

None == [id |-> 0]

Start == [track |-> 0, sector |-> 0]

Job == [id : Nat \ {0}, client : Thread, op : {"get", "put", "trace"}, sector : Nat]

Init ==
    /\ algorithm \in {"look", "sstf"}
    /\ pooled \in BOOLEAN
    /\ conn = [c \in Client |-> "none"]
    /\ asked = [t \in Thread |-> None]
    /\ insertion = None
    /\ queue = <<>>
    /\ worker = [pc |-> "pick", job |-> None, to |-> Start]
    /\ head = Start
    /\ perCylinder = ConfigAddress
    /\ console = "starts"
    /\ tool = "idle"
    /\ trace = None
    /\ volume = [s \in JobSector |-> 0]
    /\ answers = {}
    /\ received = 0 /\ traces = 0
    /\ lost = {} /\ loose = {}

-----------------------------------------------------------------------------
(* Positions *)

SectorOf(position) == position.track * perCylinder + position.sector
PositionOf(sector) == [track |-> sector \div perCylinder, sector |-> sector % perCylinder]

Distance(a, b) == IF a > b THEN a - b ELSE b - a

\* A faulty Keeps: a job as near as the old one goes before it.
KeepsFarther(old, new) ==
    LET here == SectorOf(head) IN
    ~ /\ Distance(here, old.sector) >= Distance(here, new.sector)
      /\ algorithm = "look" => new.sector >= here

\* ppd_alg_planif_strategy_...: TRUE keeps the old job before the new one.
Keeps(old, new) ==
    LET here == SectorOf(head) IN
    ~ /\ Distance(here, old.sector) > Distance(here, new.sector)
      /\ algorithm = "look" => new.sector >= here

-----------------------------------------------------------------------------
(* Insertion in the list, commons_list_addNode *)

\* Jobs that were put in the list and not executed, and those received before.
Held == ToSet(queue) \cup ({worker.job} \ {None})
Waiting == Held \cup ({asked[t] : t \in Thread} \ {None})

\* A thread builds its job and calls ppd_queues_putInQueue.
Asks(t, op, sector) ==
    /\ asked[t] = None
    /\ received' = received + 1
    /\ asked' = [asked EXCEPT ![t] =
           [id |-> received', client |-> t, op |-> op, sector |-> sector]]

InsertBegin(t) ==
    /\ insertion = None
    /\ asked[t] # None
    /\ insertion' = [id |-> asked[t].id, by |-> t, at |-> 1, step |-> "scan", seen |-> 0]
    /\ UNCHANGED <<configVars, conn, asked, queue, lost, worker, headVars, consoleVars,
                   volume, answers, received, loose>>

\* The scan goes on past the jobs that the criterion keeps before the new one.
InsertScan ==
    /\ insertion # None
    /\ insertion.step = "scan"
    /\ LET next == insertion.at + 1
           goesOn == next <= Len(queue) /\ Keeps(queue[next], asked[insertion.by])
       IN insertion' = [insertion EXCEPT !.seen = IF goesOn THEN SectorOf(head) ELSE @,
                                         !.at = IF goesOn THEN next ELSE @,
                                         !.step = IF goesOn THEN @ ELSE "place"]
    /\ UNCHANGED <<configVars, conn, asked, queue, lost, worker, headVars, consoleVars,
                   volume, answers, received, loose>>

\* A faulty Placed: the new node is linked to the rest and not to the list.
PlacedAlone(at, new) ==
    IF queue = <<>> THEN <<new>>
    ELSE IF Keeps(queue[at], new) THEN SubSeq(queue, 1, at) \o <<new>>
    ELSE <<new>> \o SubSeq(queue, at, Len(queue))

\* The node where the scan stopped is compared again: kept, the new node comes
\* after it; not kept, the new node points to it and becomes the first of the
\* list, and the nodes that were before it are reachable no more.
Placed(at, new) ==
    IF queue = <<>> THEN <<new>>
    ELSE IF Keeps(queue[at], new) THEN InsertAt(queue, at + 1, new)
    ELSE <<new>> \o SubSeq(queue, at, Len(queue))

InsertPlace ==
    /\ insertion # None
    /\ insertion.step = "place"
    /\ LET t == insertion.by IN
       /\ queue' = Placed(insertion.at, asked[t])
       /\ lost' = lost \cup (ToSet(queue) \ ToSet(queue'))
       /\ loose' = IF Cardinality(Held) >= 3 THEN loose \cup {asked[t].id} ELSE loose
       /\ asked' = [asked EXCEPT ![t] = None]
       /\ conn' = IF t \in Client
                  THEN [conn EXCEPT ![t] = IF pooled THEN "serving" ELSE "ended"]
                  ELSE conn
       /\ console' = IF t = Console THEN "asked" ELSE console
    /\ insertion' = None
    /\ UNCHANGED <<configVars, worker, headVars, tool, trace, traces, volume, answers,
                   received>>

-----------------------------------------------------------------------------
(* Connections of PFS, ppd-pfs-entrypoint.c *)

\* accept, the handshake (never refused) and a thread of its own.
Accept(c) ==
    /\ conn[c] = "none"
    /\ conn' = [conn EXCEPT ![c] = "serving"]
    /\ UNCHANGED <<configVars, listVars, worker, headVars, consoleVars, volume, answers,
                   received, loose>>

ProcessRequest(c, op, sector) ==
    /\ conn[c] = "serving"
    /\ received < MaxJobs
    /\ Asks(c, op, sector)
    /\ conn' = [conn EXCEPT ![c] = "inserting"]
    /\ UNCHANGED <<configVars, insertion, queue, lost, worker, headVars, consoleVars,
                   volume, answers, loose>>

\* A blank message: the connection was closed.
EndOfFile(c) ==
    /\ conn[c] = "serving"
    /\ conn' = [conn EXCEPT ![c] = "ended"]
    /\ UNCHANGED <<configVars, listVars, worker, headVars, consoleVars, volume, answers,
                   received, loose>>

-----------------------------------------------------------------------------
(* The worker, ppd_planifier_worker_doJob *)

\* A faulty WorkerPick: commons_queue_get without the mutex.
WorkerPickUnlocked ==
    /\ worker.pc = "pick"
    /\ queue # <<>>
    /\ worker' = [pc |-> "execute", job |-> Head(queue), to |-> Start]
    /\ queue' = Tail(queue)
    /\ UNCHANGED <<configVars, conn, asked, insertion, lost, headVars, consoleVars,
                   volume, answers, received, loose>>

\* A faulty WorkerPick: off by one, the last job is left in the list.
WorkerPickOfTwo ==
    /\ worker.pc = "pick"
    /\ Len(queue) > 1
    /\ insertion = None
    /\ worker' = [pc |-> "execute", job |-> Head(queue), to |-> Start]
    /\ queue' = Tail(queue)
    /\ UNCHANGED <<configVars, conn, asked, insertion, lost, headVars, consoleVars,
                   volume, answers, received, loose>>

\* commons_queue_get: the first element, under the mutex of the list.
QueueGet ==
    /\ queue # <<>>
    /\ insertion = None
    /\ queue' = Tail(queue)

\* ppd_queues_pickFromQueue polls until there is a job.
WorkerPick ==
    /\ worker.pc = "pick"
    /\ QueueGet
    /\ worker' = [pc |-> "execute", job |-> Head(queue), to |-> Start]
    /\ UNCHANGED <<configVars, conn, asked, insertion, lost, headVars, consoleVars,
                   volume, answers, received, loose>>

\* Executed, the job moves the head to its sector: the position is computed, and
\* then one field is set after the other.
MovesTo(sector) == worker' = [pc |-> "track", job |-> None, to |-> PositionOf(sector)]

WorkerWrite ==
    /\ worker.pc = "execute"
    /\ worker.job.op = "put"
    /\ volume' = [volume EXCEPT ![worker.job.sector] = worker.job.id]
    /\ MovesTo(worker.job.sector)
    /\ UNCHANGED <<configVars, conn, listVars, headVars, consoleVars, answers, received,
                   loose>>

\* ppd_endpoint_responseGetSector: on the connection of the job, or that of PRAID.
Answers(job) ==
    answers' = answers \cup
        {[id |-> job.id, client |-> job.client, value |-> volume[job.sector]]}

WorkerRead ==
    /\ worker.pc = "execute"
    /\ worker.job.op = "get"
    /\ Answers(worker.job)
    /\ MovesTo(worker.job.sector)
    /\ UNCHANGED <<configVars, conn, listVars, headVars, consoleVars, volume, received,
                   loose>>

WorkerSetTrack ==
    /\ worker.pc = "track"
    /\ head' = [head EXCEPT !.track = worker.to.track]
    /\ worker' = [worker EXCEPT !.pc = "sector"]
    /\ UNCHANGED <<configVars, conn, listVars, perCylinder, consoleVars, volume, answers,
                   received, loose>>

WorkerSetSector ==
    /\ worker.pc = "sector"
    /\ head' = [head EXCEPT !.sector = worker.to.sector]
    /\ worker' = [pc |-> "pick", job |-> None, to |-> Start]
    /\ UNCHANGED <<configVars, conn, listVars, perCylinder, consoleVars, volume, answers,
                   received, loose>>

-----------------------------------------------------------------------------
(* Traces, ppd_console_entrypoint_TiempoConsumido *)

\* The sector under the head after a change of track.
AfterTrack(sector) ==
    LET moved == sector + (TrackJump % TrackSectors) IN
    IF moved >= TrackSectors THEN moved - TrackSectors ELSE moved

OutOfRange(position) ==
    position.track * Cylinders + position.sector > TrackSectors * Cylinders - 1

\* The trace starts where the head is: it copies the position.
TraceStart(to) ==
    /\ perCylinder' = Cylinders
    /\ trace' = IF OutOfRange(to) THEN None ELSE [id |-> 1, to |-> to, at |-> head]

TraceArrived == trace.at = trace.to

\* One track nearer.
TraceTrack ==
    /\ trace # None
    /\ trace.at.track # trace.to.track
    /\ trace' = [trace EXCEPT
           !.at = [track |-> IF @.track < trace.to.track THEN @.track + 1 ELSE @.track - 1,
                   sector |-> AfterTrack(@.sector)]]
    /\ UNCHANGED <<configVars, conn, listVars, worker, headVars, console, tool, traces,
                   volume, answers, received, loose>>

\* A faulty TraceTurn: at the end of the track it does not go back to its start.
TraceTurnStops ==
    /\ trace # None
    /\ trace.at.track = trace.to.track /\ ~TraceArrived
    /\ trace' = [trace EXCEPT !.at.sector = IF @ + 1 = TrackSectors THEN @ ELSE (@ + 1) % Width]
    /\ UNCHANGED <<configVars, conn, listVars, worker, headVars, console, tool, traces,
                   volume, answers, received, loose>>

\* The platter turns one sector, which the console is told and acknowledges.
TraceTurn ==
    /\ trace # None
    /\ trace.at.track = trace.to.track /\ ~TraceArrived
    /\ trace' = [trace EXCEPT !.at.sector =
           LET next == (@ + 1) % Width IN IF next = TrackSectors THEN 0 ELSE next]
    /\ UNCHANGED <<configVars, conn, listVars, worker, headVars, console, tool, traces,
                   volume, answers, received, loose>>

\* The trace, too, sets one field of the head after the other.
TraceSetTrack ==
    /\ trace # None
    /\ TraceArrived /\ trace.id = 1
    /\ head' = [head EXCEPT !.track = trace.at.track]
    /\ trace' = [trace EXCEPT !.id = 2]
    /\ UNCHANGED <<configVars, conn, listVars, worker, perCylinder, console, tool, traces,
                   volume, answers, received, loose>>

TraceEnd ==
    /\ IF trace = None THEN UNCHANGED head
       ELSE trace.id = 2 /\ head' = [head EXCEPT !.sector = trace.at.sector]
    /\ trace' = None

-----------------------------------------------------------------------------
(* The console, ppdConsoleServiceThread *)

ConsoleStart ==
    /\ console = "starts"
    /\ console' = "idle"
    /\ head' = Start
    /\ UNCHANGED <<configVars, conn, listVars, worker, perCylinder, tool, trace, traces,
                   volume, answers, received, loose>>

\* ppd_console_trace: the console splits the sector in tracks of TrackSectors.
Request(sector) == [track |-> sector \div TrackSectors, sector |-> sector % TrackSectors]

\* The console process sends one sector at a time, and waits for its end.
ToolAsks ==
    /\ tool = "idle"
    /\ traces < MaxTraces
    /\ traces' = traces + 1
    /\ tool' = "waits"

\* With look the thread traces itself.
ConsoleTrace(sector) ==
    /\ algorithm = "look"
    /\ console = "idle"
    /\ ToolAsks
    /\ console' = "traces"
    /\ TraceStart(Request(sector))
    /\ UNCHANGED <<configVars, conn, listVars, worker, head, volume, answers, received,
                   loose>>

ConsoleTraceEnd ==
    /\ console = "traces"
    /\ TraceEnd
    /\ console' = "idle"
    /\ tool' = "idle"
    /\ UNCHANGED <<configVars, conn, listVars, worker, perCylinder, traces, volume,
                   answers, received, loose>>

\* With sstf it queues a job that marks the trace ...
ConsoleMark(sector) ==
    /\ algorithm = "sstf"
    /\ console = "idle" /\ received < MaxJobs
    /\ ToolAsks
    /\ console' = "marks"
    /\ Asks(Console, "trace", SectorOf(Request(sector)))
    /\ UNCHANGED <<configVars, conn, insertion, queue, lost, worker, headVars, trace,
                   volume, answers, loose>>

\* ... and then waits for a signal.
ConsoleWait ==
    /\ console = "asked"
    /\ console' = "waits"
    /\ UNCHANGED <<configVars, conn, listVars, worker, headVars, tool, trace, traces,
                   volume, answers, received, loose>>

\* The worker finds the mark, traces, signals and answers.
WorkerTrace ==
    /\ worker.pc = "execute"
    /\ worker.job.op = "trace"
    /\ worker' = [worker EXCEPT !.pc = "traces"]
    /\ TraceStart(PositionOf(worker.job.sector))
    /\ UNCHANGED <<configVars, conn, listVars, head, console, tool, traces, volume,
                   answers, received, loose>>

WorkerTraceEnd ==
    /\ worker.pc = "traces"
    /\ TraceEnd
    /\ worker' = [worker EXCEPT !.pc = "signals"]
    /\ UNCHANGED <<configVars, conn, listVars, perCylinder, console, tool, traces, volume,
                   answers, received, loose>>

\* A faulty WorkerSignal: the answer is sent and nobody is woken.
WorkerSignalQuiet ==
    /\ worker.pc = "signals"
    /\ worker' = [worker EXCEPT !.pc = "reports"]
    /\ UNCHANGED <<configVars, conn, listVars, headVars, consoleVars, volume, answers,
                   received, loose>>

WorkerSignal ==
    /\ worker.pc = "signals"
    /\ worker' = [worker EXCEPT !.pc = "reports"]
    /\ console' = IF console = "waits" THEN "idle" ELSE console
    /\ UNCHANGED <<configVars, conn, listVars, headVars, tool, trace, traces, volume,
                   answers, received, loose>>

WorkerReport ==
    /\ worker.pc = "reports"
    /\ MovesTo(worker.job.sector)
    /\ tool' = "idle"
    /\ UNCHANGED <<configVars, conn, listVars, headVars, console, trace, traces, volume,
                   answers, received, loose>>

-----------------------------------------------------------------------------

Insert == (\E t \in Thread : InsertBegin(t)) \/ InsertScan \/ InsertPlace

Worker ==
    \/ WorkerPick \/ WorkerWrite \/ WorkerRead \/ WorkerSetTrack \/ WorkerSetSector
    \/ WorkerTrace \/ WorkerTraceEnd \/ WorkerSignal \/ WorkerReport

ConsoleThread == ConsoleStart \/ ConsoleTraceEnd \/ ConsoleWait

Environment ==
    \/ \E c \in Client : Accept(c) \/ EndOfFile(c)
    \/ \E c \in Client, op \in {"get", "put"}, s \in JobSector : ProcessRequest(c, op, s)
    \/ \E s \in TraceSector : ConsoleTrace(s) \/ ConsoleMark(s)

Trace == TraceTrack \/ TraceTurn \/ TraceSetTrack

Next == Insert \/ Worker \/ ConsoleThread \/ Trace \/ Environment

Spec == Init /\ [][Next]_vars

\* The threads of the process run, and the console process acknowledges.
Fairness ==
    /\ WF_vars(Insert) /\ WF_vars(Worker) /\ WF_vars(ConsoleThread) /\ WF_vars(Trace)

FairSpec == Spec /\ Fairness

-----------------------------------------------------------------------------
(* Properties *)

\* The variables have their types; the job being inserted is that of the
\* thread that holds the mutex, and its place is in the list.
Position == [track : Nat, sector : Nat]
InsertionState ==
    [id : Nat \ {0}, by : Thread, at : Nat \ {0}, step : {"scan", "place"}, seen : Nat]
WorkerState ==
    [pc : {"pick", "execute", "track", "sector", "traces", "signals", "reports"},
     job : Job \cup {None}, to : Position]

TypeOK ==
    /\ algorithm \in {"look", "sstf"} /\ pooled \in BOOLEAN
    /\ conn \in [Client -> {"none", "serving", "inserting", "ended"}]
    /\ console \in {"starts", "idle", "marks", "asked", "waits", "traces"}
    /\ tool \in {"idle", "waits"}
    /\ asked \in [Thread -> Job \cup {None}]
    /\ \A c \in Client : (asked[c] # None) <=> (conn[c] = "inserting")
    /\ (asked[Console] # None) <=> (console = "marks")
    /\ queue \in Seq(Job)
    /\ insertion \in InsertionState \cup {None}
    /\ insertion # None =>
          /\ asked[insertion.by] # None
          /\ insertion.at = 1 \/ insertion.at \in DOMAIN queue
    /\ worker \in WorkerState
    /\ worker.job # None <=> worker.pc \in {"execute", "traces", "signals", "reports"}
    /\ head \in Position
    /\ perCylinder \in {ConfigAddress, Cylinders}
    /\ trace \in [id : {1, 2}, to : Position, at : Position] \cup {None}
    /\ volume \in [JobSector -> Nat]
    /\ answers \subseteq [id : Nat, client : Thread, value : Nat]
    /\ received \in Nat /\ traces \in Nat
    /\ lost \subseteq Job /\ loose \subseteq Nat

\* The process keeps the promise of DiskService, insertions, executions and
\* moves of the head interleaved: a job goes before an older one of its client
\* and sector only if three others were there when it was put in the list, one
\* falls off the list only if there were two, none is executed twice, and a read
\* gives the last write executed.
Disk == INSTANCE DiskService WITH Sector <- JobSector, waiting <- Held
ServiceContract == Disk!Spec

\* Jobs fall off the list only when the head moved between the two comparisons
\* of an insertion (commons_list_addNode): a head that stays loses none, however
\* many jobs wait.
LossNeedsMovingHead == [][lost' # lost => insertion.seen # SectorOf(head)]_vars

\* No job waits for ever: the worker serves it, unless it fell off the list.
JobsEnd ==
    \A id \in 1 .. MaxJobs :
        (\E job \in Waiting : job.id = id) ~> (\A job \in Waiting : job.id # id)

\* A trace ends wherever the head was, even past the end of the track: then it
\* turns through all the values of a uint32.
TracesEnd == trace # None ~> trace = None

MarkToSignal == worker.pc # "reports" /\ \E job \in Waiting : job.op = "trace"

\* The console thread that waits before the worker signals is woken, unless its
\* mark fell off the list.  (When the worker signals first, it never is.)
ConsoleReturns ==
    (console = "waits" /\ MarkToSignal) ~>
        (console = "idle" \/ \E job \in lost : job.op = "trace")

=============================================================================
