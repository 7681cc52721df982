------------------------------- MODULE PpdNode -------------------------------
(***************************************************************************)
(* A disk process (grage-ppd in connect mode) as PRAID sees it: it receives *)
(* messages in order, queues the jobs for its planifier, executes them one  *)
(* by one, and streams or rebuilds its volume file during a replication.    *)
(* The planifier is a DiskService (PpdPlanifier shows it): it reorders jobs *)
(* of different sectors as it likes; a job that is queued while two others  *)
(* wait may also go before older jobs of its own sector (DiskService allows *)
(* it when three wait: two let small runs meet it), or make the list lose   *)
(* some.  The histories misplaced and dropped name those sectors.           *)
(***************************************************************************)
EXTENDS Praid

VARIABLES
    disk,        \* the volume file, a sequence of sector contents
    mapped,      \* diskStartAddress # NULL
    jobs,        \* jobsQueue of the planifier
    stream,      \* next sector a replicating master sends, 0 when it sends none
    rebuilding,  \* replicationDiskVolume is open for writing
    ready,       \* the PPD has been told to process jobs
    misplaced,   \* history: sectors with a job queued before an older one
    dropped,     \* history: sectors with a job that fell off the list of jobs
    deaths       \* PPD processes that ended: crashed, faulted or gave up

nodeVars == <<disk, mapped, jobs, stream, rebuilding, ready, misplaced, dropped>>

Volume(value) == [i \in Sector |-> value]

\* A cluster member holds the volume; another PPD starts with no volume file
\* or with an old one, which it maps.
InitNode ==
    /\ ppdStatus = [s \in Storage |->
                       IF s \in ToSet(InitialStorages) THEN "running" ELSE "offline"]
    /\ disk \in [Storage -> {<<>>, Volume(0), Volume(Stale)}]
    /\ \A s \in Storage :
          (disk[s] = Volume(0)) = (s \in ToSet(InitialStorages))
    /\ mapped = [s \in Storage |-> disk[s] # <<>>]
    /\ jobs = [s \in Storage |-> <<>>]
    /\ stream = [s \in Storage |-> 0]
    /\ rebuilding = [s \in Storage |-> FALSE]
    /\ ready = [s \in Storage |-> s \in ToSet(InitialStorages)]
    /\ misplaced = {} /\ dropped = {}
    /\ deaths = 0

\* What is left of a process that ended: the messages it had sent.
Ends(s) ==
    /\ ppdStatus' = [ppdStatus EXCEPT ![s] = "dead"]
    /\ disk' = [disk EXCEPT ![s] = <<>>]
    /\ mapped' = [mapped EXCEPT ![s] = FALSE]
    /\ jobs' = [jobs EXCEPT ![s] = <<>>]
    /\ stream' = [stream EXCEPT ![s] = 0]
    /\ rebuilding' = [rebuilding EXCEPT ![s] = FALSE]
    /\ ready' = [ready EXCEPT ![s] = FALSE]
    /\ toPpd' = [toPpd EXCEPT ![s] = <<>>]
    /\ deaths' = deaths + 1

\* ppd_entrypoint_launchPraidPpdEntrypoint takes a message, when it is not in
\* the middle of ppd_sync_replicateGet, which it runs itself.
Takes(s, ops) ==
    /\ ppdStatus[s] = "running"
    /\ stream[s] = 0
    /\ toPpd[s] # <<>>
    /\ Head(toPpd[s]).op \in ops
    /\ toPpd' = [toPpd EXCEPT ![s] = Tail(@)]

\* ppd_queues_putInQueue.  Between jobs of different sectors the place of a job
\* says nothing (Executable).
QueueInOrder(s, job) ==
    /\ jobs' = [jobs EXCEPT ![s] = Append(@, job)]
    /\ UNCHANGED misplaced

Misplace(s, job, i) ==
    /\ Len(jobs[s]) >= 2
    /\ jobs[s][i].sector = job.sector
    /\ jobs' = [jobs EXCEPT ![s] = InsertAt(@, i, job)]
    /\ misplaced' = misplaced \cup {job.sector}

NodeQueueJob(s) ==
    /\ Takes(s, {"get", "put"})
    /\ LET job == Head(toPpd[s]) IN
       QueueInOrder(s, job) \/ \E i \in DOMAIN jobs[s] : Misplace(s, job, i)
    /\ UNCHANGED <<praidVars, fromPpd, requests, replies, ppdStatus, disk, mapped,
                   stream, rebuilding, ready, dropped, deaths>>

\* What the list loses when a job is put in it while two others wait.  Nothing
\* but its execution tells whether a job is still there, so that jobs lost at
\* once are lost one by one here.
NodeLosesJob(s) ==
    /\ ppdStatus[s] = "running"
    /\ Len(jobs[s]) >= 3
    /\ \E i \in DOMAIN jobs[s] :
          /\ jobs' = [jobs EXCEPT ![s] = RemoveAt(@, i)]
          /\ dropped' = dropped \cup {jobs[s][i].sector}
    /\ UNCHANGED <<praidVars, networkVars, ppdStatus, disk, mapped, stream, rebuilding,
                   ready, misplaced, deaths>>

\* ppd_sync_replicateGet opens the volume file, or ends the process.
NodeSyncGet(s) ==
    /\ \/ /\ disk[s] # <<>>
          /\ Takes(s, {"syncGet"})
          /\ stream' = [stream EXCEPT ![s] = 1]
          /\ UNCHANGED <<ppdStatus, disk, mapped, jobs, rebuilding, ready, deaths>>
       \/ /\ disk[s] = <<>>
          /\ ppdStatus[s] = "running" /\ stream[s] = 0 /\ toPpd[s] # <<>>
          /\ Head(toPpd[s]).op = "syncGet"
          /\ Ends(s)
    /\ UNCHANGED <<praidVars, fromPpd, requests, replies, misplaced, dropped>>

\* One sector of ppd_sync_processFileSectors.
NodeStream(s) ==
    /\ ppdStatus[s] = "running"
    /\ stream[s] \in DOMAIN disk[s]
    /\ fromPpd' = [fromPpd EXCEPT ![s] = Append(@, Sync("syncPut", disk[s][stream[s]]))]
    /\ stream' = [stream EXCEPT ![s] = @ + 1]
    /\ UNCHANGED <<praidVars, toPpd, requests, replies, ppdStatus, disk, mapped, jobs,
                   rebuilding, ready, misplaced, dropped, deaths>>

\* ppd_sync_finishReplication, on the source and on the destiny, first takes
\* the mapping away, if there is one.  The worker goes on meanwhile.
Streamed(s) == stream[s] > 1 /\ stream[s] = Len(disk[s]) + 1
Rebuilt(s) ==
    /\ stream[s] = 0 /\ rebuilding[s]
    /\ toPpd[s] # <<>> /\ Head(toPpd[s]).op = "syncEnd"

NodeUnmap(s) ==
    /\ ppdStatus[s] = "running"
    /\ mapped[s]
    /\ Streamed(s) \/ Rebuilt(s)
    /\ mapped' = [mapped EXCEPT ![s] = FALSE]
    /\ UNCHANGED <<praidVars, networkVars, ppdStatus, disk, jobs, stream, rebuilding,
                   ready, misplaced, dropped, deaths>>

\* Then, on the source, the file is mapped again and PRAID is told.
NodeStreamEnd(s) ==
    /\ ppdStatus[s] = "running"
    /\ Streamed(s)
    /\ ~ mapped[s]
    /\ fromPpd' = [fromPpd EXCEPT ![s] = Append(@, Sync("syncEnd", 0))]
    /\ stream' = [stream EXCEPT ![s] = 0]
    /\ rebuilding' = [rebuilding EXCEPT ![s] = FALSE]
    /\ mapped' = [mapped EXCEPT ![s] = TRUE]
    /\ UNCHANGED <<praidVars, toPpd, requests, replies, ppdStatus, disk, jobs, ready,
                   misplaced, dropped, deaths>>

\* A faulty NodeSyncPut: the old volume file is not truncated.
NodeSyncPutAppending(s) ==
    /\ Takes(s, {"syncPut"})
    /\ disk' = [disk EXCEPT ![s] = Append(@, Head(toPpd[s]).value)]
    /\ rebuilding' = [rebuilding EXCEPT ![s] = TRUE]
    /\ UNCHANGED <<praidVars, fromPpd, requests, replies, ppdStatus, mapped, jobs,
                   stream, ready, misplaced, dropped, deaths>>

\* ppd_sync_replicatePut: the first sector truncates the file, each sector is
\* appended to it, whatever its number.
NodeSyncPut(s) ==
    /\ Takes(s, {"syncPut"})
    /\ LET value == Head(toPpd[s]).value IN
       disk' = [disk EXCEPT ![s] = IF rebuilding[s] THEN Append(@, value) ELSE <<value>>]
    /\ rebuilding' = [rebuilding EXCEPT ![s] = TRUE]
    /\ UNCHANGED <<praidVars, fromPpd, requests, replies, ppdStatus, mapped, jobs,
                   stream, ready, misplaced, dropped, deaths>>

\* On the destiny the file is mapped, if a sector of it has arrived.
NodeSyncEnd(s) ==
    /\ Takes(s, {"syncEnd"})
    /\ ~ (mapped[s] /\ rebuilding[s])
    /\ mapped' = [mapped EXCEPT ![s] = @ \/ rebuilding[s]]
    /\ rebuilding' = [rebuilding EXCEPT ![s] = FALSE]
    /\ ready' = [ready EXCEPT ![s] = TRUE]
    /\ UNCHANGED <<praidVars, fromPpd, requests, replies, ppdStatus, disk, jobs,
                   stream, misplaced, dropped, deaths>>

\* The planifier chooses; a faulty Executable ignores the order in a sector.
ExecutableAnyOrder(s, i) == i \in DOMAIN jobs[s]
Executable(s, i) ==
    /\ i \in DOMAIN jobs[s]
    /\ \A j \in 1 .. i - 1 : jobs[s][j].sector # jobs[s][i].sector

\* ppd_planifier_worker_doJob.  A sector outside the mapped file is a fault,
\* and so is any job while the file is not mapped.
Executes(s, i) ==
    LET job == jobs[s][i] IN
    IF mapped[s] /\ job.sector \in DOMAIN disk[s]
    THEN /\ jobs' = [jobs EXCEPT ![s] = RemoveAt(@, i)]
         /\ IF job.op = "put"
            THEN /\ disk' = [disk EXCEPT ![s][job.sector] = job.value]
                 /\ UNCHANGED fromPpd
            ELSE /\ fromPpd' = [fromPpd EXCEPT ![s] =
                       Append(@, [job EXCEPT !.value = disk[s][job.sector]])]
                 /\ UNCHANGED disk
         /\ UNCHANGED <<toPpd, ppdStatus, mapped, stream, rebuilding, ready, deaths>>
    ELSE Ends(s) /\ UNCHANGED fromPpd

NodeExecute(s) ==
    /\ ppdStatus[s] = "running"
    /\ \E i \in DOMAIN jobs[s] : Executable(s, i) /\ Executes(s, i)
    /\ UNCHANGED <<praidVars, requests, replies, misplaced, dropped>>

\* A PPD crashes, or its connection breaks.
NodeDies(s) ==
    /\ ppdStatus[s] = "running"
    /\ deaths < MaxDeaths
    /\ Ends(s)
    /\ UNCHANGED <<praidVars, fromPpd, requests, replies, misplaced, dropped>>

Node(s) ==
    \/ NodeQueueJob(s) \/ NodeSyncGet(s) \/ NodeStream(s) \/ NodeUnmap(s)
    \/ NodeStreamEnd(s) \/ NodeSyncPut(s) \/ NodeSyncEnd(s) \/ NodeExecute(s)

=============================================================================
