--------------------------- MODULE WorkLeasesProofs ---------------------------
(* Theorems about WorkLeases for every number of requests, leases and faults. *)
(* Through INSTANCE, about the host it keeps awake: HostAssembly, for every   *)
(* number of callers and of cancellations of whoever closes it, and what the *)
(* host is deployed as: ServiceProcesses, ReleaseArtifact and LambdaPackage; *)
(* and about who is told that it is ready: HostReady.                        *)
EXTENDS WorkLeases, MCHost, FiniteSetTheorems, SequenceTheorems, TLAPS

----------------------------------------------------------------------------
(* The inductive invariant.                                                  *)

JobType ==
  [op: {"none", "begin", "finish", "refresh"}, who: Requests \cup {None},
   pc: {"done", "refresh", "renew", "hand", "release", "admit", "take", "drop"},
   left: SUBSET Tokens, again: BOOLEAN, error: BOOLEAN]

TypeInv ==
  /\ busy \in BOOLEAN /\ failed \in BOOLEAN /\ closed \in BOOLEAN
  /\ same \in BOOLEAN /\ admits \in BOOLEAN
  /\ requests \subseteq Tokens /\ pending \in 0..MaxLeases /\ leases \subseteq Tokens
  /\ job \in JobType
  /\ phase \in [Requests -> Phases] /\ token \in [Requests -> 0..MaxLeases]
  /\ drawn \in 0..MaxLeases /\ faults \in 0..MaxFaults /\ expired \subseteq Tokens

\* What a request does when it has not got its token, and while it needs it.
Early == {"out", "begin", "abandoned"}
Keeping == {"handle", "finish", "abandoning"}

\* Each request has a token of its own, in the books while it needs it.
TokenInv ==
  /\ \A r, s \in Requests : token[r] # 0 /\ token[r] = token[s] => r = s
  /\ \A r \in Requests : token[r] <= drawn
  /\ \A r \in Requests : phase[r] \in Early => token[r] = 0
  /\ \A r \in Requests : phase[r] \in Keeping => token[r] \in requests
  /\ pending <= drawn /\ \A k \in requests : k <= drawn

\* The job that has the lock works for a request that waits for it.
JobInv ==
  /\ job.op = "none" => job = NoJob
  /\ job.op = "begin" => job.who \in Requests /\ phase[job.who] \in {"begin", "abandoned"}
  /\ job.op = "finish" => job.who \in Requests /\ phase[job.who] \in {"finish", "abandoning"}
  /\ job.pc \in {"admit", "take"} => job.op \in {"begin", "finish"}
  /\ job.pc = "drop" => job.op = "finish"
  /\ job.op # "none" => job.pc # "done"

\* What is in the books is live, or has run out on the process.
LeaseInv ==
  /\ requests \subseteq leases \cup expired
  /\ pending # 0 => pending \in leases \cup expired

\* The tokens of the requests but the one whose finish has the lock.
Others == IF job.op = "finish" THEN requests \ {token[job.who]} ELSE requests

\* The lease given back as unneeded is no request's; if a Task has begun since, the
\* request that left it has a token.
ReleaseInv ==
  job.pc = "release" => pending # 0 /\ pending \notin requests /\ (busy => Others # {})

\* When a finish is about to give its token back, a Task has a lease or another
\* request has.
DropInv ==
  job.op = "finish" /\ job.pc \in {"admit", "take", "drop"} /\ busy /\ ~failed
    => pending # 0 \/ Others # {}

BusyInv == busy /\ ~failed => pending # 0 \/ requests # {}

Inv ==
  /\ TypeInv /\ TokenInv /\ JobInv /\ LeaseInv /\ ReleaseInv /\ DropInv /\ BusyInv

----------------------------------------------------------------------------
(* The job.                                                                  *)

LEMMA NoJobType ==
  /\ NoJob \in JobType /\ NoJob.op = "none" /\ NoJob.pc = "done"
BY DEF NoJob, JobType

\* A job goes on: it is the same, somewhere else.
OnAt(pc) == job' \in JobType /\ job'.op = job.op /\ job'.who = job.who /\ job'.pc = pc

LEMMA GoesOn ==
  ASSUME TypeInv, NEW pc \in {"refresh", "renew", "hand", "release", "admit", "take", "drop"},
         Goes(pc)
  PROVE  OnAt(pc)
BY DEF TypeInv, Goes, JobType, OnAt

LEMMA MovesOn ==
  ASSUME TypeInv, NEW pc \in {"admit", "drop", "refresh", "done"}, Moves(pc)
  PROVE  IF pc = "done" THEN job' = NoJob ELSE OnAt(pc)
<1>1. CASE pc = "done"
  BY <1>1 DEF Moves
<1>2. CASE pc # "done"
  <2> DEFINE there == [job EXCEPT !.pc = pc]
             repeated == job.again \/ pc = "refresh"
  <2>1. there \in JobType /\ there.op = job.op /\ there.who = job.who /\ there.pc = pc
        /\ there.again = job.again
    BY DEF TypeInv, JobType
  <2>2. repeated \in BOOLEAN
    OBVIOUS
  <2>3. job' = [there EXCEPT !.again = repeated]
    BY <1>2, <2>1 DEF Moves
  <2> HIDE DEF there, repeated
  <2> QED BY <1>2, <2>1, <2>2, <2>3 DEF JobType, OnAt
<1> QED BY <1>1, <1>2

\* An operation that fails: a finish goes on to give its token back, any other job is
\* over, and its request with it.
Over(r) ==
  /\ phase' \in [Requests -> Phases] /\ phase'[r] \in {"failing", "done"}
  /\ \A s \in Requests \ {r} : phase'[s] = phase[s]

LEMMA EndedOver ==
  ASSUME TypeInv, NEW r \in Requests, NEW error, Ended(r, error)
  PROVE  Over(r)
BY DEF TypeInv, Ended, Over, Phases

LEMMA RaisesMoves ==
  ASSUME TypeInv, JobInv, job.op # "none", Raises
  PROVE  /\ phase' \in [Requests -> Phases]
         /\ \/ job.op = "finish" /\ OnAt("drop") /\ phase' = phase
            \/ job.op = "begin" /\ job' = NoJob /\ Over(job.who)
            \/ job.op = "refresh" /\ job' = NoJob /\ phase' = phase
<1>0. phase \in [Requests -> Phases] /\ job \in JobType
  BY DEF TypeInv
<1>1. CASE job.op = "finish"
  <2> DEFINE there == [job EXCEPT !.pc = "drop"]
  <2>1. there \in JobType /\ there.op = job.op /\ there.who = job.who /\ there.pc = "drop"
    BY <1>0 DEF JobType
  <2>2. job' = [there EXCEPT !.error = TRUE] /\ phase' = phase
    BY <1>1 DEF Raises
  <2> HIDE DEF there
  <2>3. OnAt("drop")
    BY <2>1, <2>2 DEF JobType, OnAt
  <2> QED BY <1>0, <1>1, <2>2, <2>3
<1>2. CASE job.op = "begin"
  <2>1. job' = NoJob /\ Over(job.who)
    BY <1>2, EndedOver DEF Raises, JobInv
  <2> QED BY <1>2, <2>1 DEF Over
<1>3. CASE job.op = "refresh"
  BY <1>0, <1>3 DEF Raises
<1> QED BY <1>0, <1>1, <1>2, <1>3 DEF JobType

----------------------------------------------------------------------------
(* Every action preserves the invariant.                                     *)

LEMMA TokenStays ==
  ASSUME TokenInv, UNCHANGED <<requests, pending, token, drawn>>,
         \A r \in Requests : /\ phase'[r] \in Early => phase[r] \in Early
                             /\ phase'[r] \in Keeping => phase[r] \in Keeping
  PROVE  TokenInv'
BY DEF TokenInv

LEMMA LeaseStays ==
  ASSUME LeaseInv, UNCHANGED <<requests, pending>>,
         leases \cup expired \subseteq leases' \cup expired'
  PROVE  LeaseInv'
BY DEF LeaseInv

\* What happens around the job that has the lock: requests come, go and end, the Task
\* ends, leases run out, the host changes.
LEMMA AroundKeeps ==
  ASSUME Inv, TypeInv', UNCHANGED <<requests, pending, token, drawn, job>>,
         busy' => busy, failed => failed',
         leases \cup expired \subseteq leases' \cup expired',
         \A r \in Requests :
           /\ phase'[r] \in Early => phase[r] \in Early
           /\ phase'[r] \in Keeping => phase[r] \in Keeping
           /\ phase[r] \in {"begin", "abandoned"} => phase'[r] \in {"begin", "abandoned"}
           /\ phase[r] \in {"finish", "abandoning"} => phase'[r] = phase[r]
  PROVE  Inv'
<1>1. TokenInv' /\ LeaseInv'
  BY TokenStays, LeaseStays DEF Inv
<1>2. JobInv'
  BY DEF Inv, JobInv
<1>3. ReleaseInv' /\ DropInv' /\ BusyInv'
  BY DEF Inv, ReleaseInv, DropInv, BusyInv, Others
<1> QED BY <1>1, <1>2, <1>3 DEF Inv

LEMMA RequestKeeps ==
  ASSUME Inv, NEW r \in Requests,
         AskBegin(r) \/ CancelBegin(r) \/ AskFinish(r) \/ GiveUp(r)
  PROVE  Inv'
<1>1. phase \in [Requests -> Phases]
  BY DEF Inv, TypeInv
<1>2. PICK p \in Phases :
        /\ phase' = [phase EXCEPT ![r] = p]
        /\ \/ phase[r] = "out" /\ p \in {"begin", "done"}
           \/ phase[r] = "begin" /\ p = "abandoned"
           \/ phase[r] = "handle" /\ p \in {"finish", "done"}
           \/ phase[r] = "failing" /\ p = "done"
  BY DEF AskBegin, CancelBegin, AskFinish, GiveUp, Phases
<1>3. phase' \in [Requests -> Phases] /\ phase'[r] = p
      /\ \A s \in Requests \ {r} : phase'[s] = phase[s]
  BY <1>1, <1>2
<1>4. /\ UNCHANGED <<busy, requests, pending, closed, job, token, leases, same, admits, drawn,
                     faults, expired>>
      /\ failed' = failed \/ failed' = TRUE
  BY DEF AskBegin, CancelBegin, AskFinish, GiveUp, process
<1>5. TypeInv'
  <2>1. failed' \in BOOLEAN
    BY <1>4 DEF Inv, TypeInv
  <2> QED BY <1>3, <1>4, <2>1 DEF Inv, TypeInv
<1>6. \A s \in Requests :
        /\ phase'[s] \in Early => phase[s] \in Early
        /\ phase'[s] \in Keeping => phase[s] \in Keeping
        /\ phase[s] \in {"begin", "abandoned"} => phase'[s] \in {"begin", "abandoned"}
        /\ phase[s] \in {"finish", "abandoning"} => phase'[s] = phase[s]
  BY <1>2, <1>3 DEF Early, Keeping
<1>7. failed => failed'
  BY <1>4
<1> QED BY <1>4, <1>5, <1>6, <1>7, AroundKeeps

LEMMA WorldKeeps ==
  ASSUME Inv,
         \/ WorkEnds \/ Close \/ Health \/ Stop \/ UNCHANGED vars
         \/ \E k \in Tokens : Expires(k) \/ Late(k)
  PROVE  Inv'
<1>0. UNCHANGED <<requests, pending, failed, job, phase, token, drawn>>
  BY DEF WorkEnds, Close, Health, Stop, vars, Expires, Late, process
<1>1. /\ busy' = busy \/ busy' = FALSE
      /\ closed' = closed \/ closed' = TRUE
      /\ same' = same \/ same' = FALSE
      /\ admits' = admits \/ admits' = ~admits
  BY Zenon DEF WorkEnds, Close, Health, Stop, vars, Expires, Late, process
<1>2. faults' \in 0..MaxFaults
  BY LimitsAssumption
     DEF WorkEnds, Close, Health, Stop, vars, Expires, Late, process, Fault, Inv, TypeInv
<1>3. /\ leases' \subseteq Tokens /\ expired' \subseteq Tokens
      /\ leases \cup expired \subseteq leases' \cup expired'
  BY DEF WorkEnds, Close, Health, Stop, vars, Expires, Late, process, Inv, TypeInv
<1>4. TypeInv'
  <2>1. busy' \in BOOLEAN /\ closed' \in BOOLEAN /\ same' \in BOOLEAN /\ admits' \in BOOLEAN
    BY <1>1, Zenon DEF Inv, TypeInv
  <2> QED BY <1>0, <1>2, <1>3, <2>1 DEF Inv, TypeInv
<1>5. busy' => busy
  BY <1>1, Zenon
<1> QED BY <1>0, <1>3, <1>4, <1>5, AroundKeeps

\* A handler leaves a Task: its request has a token.
LEMMA WorkKeeps ==
  ASSUME Inv, NEW r \in Requests, LeaveWork(r)
  PROVE  Inv'
<1>1. /\ phase[r] = "handle" /\ busy' = TRUE
      /\ UNCHANGED <<requests, pending, failed, closed, job, phase, token, leases, same, admits,
                     drawn, faults, expired>>
  BY DEF LeaveWork, process
<1>2. token[r] \in requests /\ token[r] # 0
  BY <1>1 DEF Inv, TypeInv, TokenInv, Keeping, Tokens
<1>3. TypeInv' /\ TokenInv' /\ JobInv' /\ LeaseInv'
  BY <1>1 DEF Inv, TypeInv, TokenInv, JobInv, LeaseInv
<1>4. BusyInv'
  BY <1>1, <1>2 DEF BusyInv
<1>5. Others # {} /\ Others' = Others
  <2>1. Others' = Others
    BY <1>1 DEF Others
  <2>2. CASE job.op = "finish"
    <3>1. job.who \in Requests /\ job.who # r
      BY <1>1, <2>2 DEF Inv, JobInv
    <3>2. token[job.who] # token[r]
      BY <1>2, <3>1 DEF Inv, TokenInv
    <3> QED BY <1>2, <2>1, <2>2, <3>2 DEF Others
  <2>3. CASE job.op # "finish"
    BY <1>2, <2>1, <2>3 DEF Others
  <2> QED BY <2>2, <2>3
<1>6. ReleaseInv' /\ DropInv'
  BY <1>1, <1>5 DEF Inv, ReleaseInv, DropInv
<1> QED BY <1>3, <1>4, <1>6 DEF Inv

LEMMA StartKeeps ==
  ASSUME Inv, NEW op \in {"begin", "finish", "refresh"}, NEW r \in Requests \cup {None},
         op # "refresh" => r \in Requests, Start(op, r)
  PROVE  Inv'
<1>1. /\ UNCHANGED <<busy, requests, pending, failed, closed, phase, token, leases, same, admits,
                     drawn, faults, expired>>
      /\ op = "begin" => phase[r] \in {"begin", "abandoned"}
      /\ op = "finish" => phase[r] \in {"finish", "abandoning"}
  BY DEF Start, process
<1>2. job' \in JobType /\ job'.op = op /\ job'.who = r /\ job'.pc = "refresh"
  <2> DEFINE one == [NoJob EXCEPT !.op = op]
             two == [one EXCEPT !.who = r]
  <2>1. one \in JobType /\ one.op = op
    BY NoJobType DEF JobType
  <2> HIDE DEF one
  <2>2. two \in JobType /\ two.op = op /\ two.who = r
    BY <2>1 DEF JobType
  <2>3. job' = [two EXCEPT !.pc = "refresh"]
    BY DEF Start, one
  <2> HIDE DEF two
  <2> QED BY <2>2, <2>3 DEF JobType
<1>3. TypeInv' /\ TokenInv' /\ LeaseInv'
  BY <1>1, <1>2 DEF Inv, TypeInv, TokenInv, LeaseInv
<1>4. JobInv'
  BY <1>1, <1>2 DEF JobInv
<1>5. ReleaseInv' /\ DropInv' /\ BusyInv'
  BY <1>1, <1>2 DEF Inv, ReleaseInv, DropInv, BusyInv
<1> QED BY <1>3, <1>4, <1>5 DEF Inv

\* The job that has the lock goes on.
LEMMA OnKeeps ==
  ASSUME Inv, TypeInv', UNCHANGED <<busy, requests, pending, token, phase>>,
         drawn <= drawn', failed => failed',
         leases \cup expired \subseteq leases' \cup expired',
         NEW pc \in {"refresh", "renew", "hand", "admit", "take", "drop"}, OnAt(pc),
         job.op # "none",
         pc \in {"admit", "take"} => job.op \in {"begin", "finish"},
         pc = "drop" => job.op = "finish",
         job.op = "finish" /\ pc \in {"admit", "take", "drop"} /\ busy /\ ~failed'
           => pending # 0 \/ Others # {}
  PROVE  Inv'
<1>1. LeaseInv'
  BY LeaseStays DEF Inv
<1>2. TokenInv'
  BY DEF Inv, TypeInv, TokenInv, Tokens
<1>3. JobInv'
  BY DEF Inv, JobInv, OnAt
<1>4. Others' = Others
  BY DEF Others, OnAt
<1>5. ReleaseInv' /\ DropInv' /\ BusyInv'
  BY <1>4 DEF Inv, ReleaseInv, DropInv, BusyInv, OnAt
<1> QED BY <1>1, <1>2, <1>3, <1>5 DEF Inv

\* The job that has the lock is over.
LEMMA OverKeeps ==
  ASSUME Inv, UNCHANGED <<busy, requests, pending, token, drawn, closed, same, admits>>,
         failed' \in BOOLEAN, failed => failed', faults' \in 0..MaxFaults,
         leases' \subseteq Tokens, expired' \subseteq Tokens,
         leases \cup expired \subseteq leases' \cup expired',
         job' = NoJob, phase' = phase \/ (job.op = "begin" /\ Over(job.who))
  PROVE  Inv'
<1>1. LeaseInv'
  BY LeaseStays DEF Inv
<1>2. /\ phase' \in [Requests -> Phases]
      /\ \A r \in Requests : /\ phase'[r] \in Early => phase[r] \in Early
                             /\ phase'[r] \in Keeping => phase[r] \in Keeping
  BY DEF Over, Early, Keeping, Inv, TypeInv, JobInv
<1>3. TokenInv'
  BY <1>2, TokenStays DEF Inv
<1>4. TypeInv'
  BY <1>2, NoJobType DEF Inv, TypeInv
<1>5. JobInv' /\ ReleaseInv' /\ DropInv' /\ BusyInv'
  BY NoJobType DEF Inv, JobInv, ReleaseInv, DropInv, BusyInv
<1> QED BY <1>1, <1>3, <1>4, <1>5 DEF Inv

LEMMA RaisesKeeps ==
  ASSUME Inv, UNCHANGED <<busy, requests, pending, token, drawn, closed, same, admits>>,
         failed' \in BOOLEAN, failed => failed', faults' \in 0..MaxFaults,
         leases' \subseteq Tokens, expired' \subseteq Tokens,
         leases \cup expired \subseteq leases' \cup expired',
         job.op # "none", Raises,
         job.op = "finish" /\ busy /\ ~failed' => pending # 0 \/ Others # {}
  PROVE  Inv'
<1>1. CASE job.op = "finish" /\ OnAt("drop") /\ phase' = phase
  <2>1. TypeInv'
    BY <1>1 DEF Inv, TypeInv, OnAt
  <2>2. drawn <= drawn'
    BY DEF Inv, TypeInv
  <2> QED BY <1>1, <2>1, <2>2, OnKeeps
<1>2. CASE job' = NoJob /\ (phase' = phase \/ (job.op = "begin" /\ Over(job.who)))
  BY <1>2, OverKeeps
<1> QED BY <1>1, <1>2, RaisesMoves DEF Inv

LEMMA FaultBounded ==
  ASSUME Inv, Fault \/ UNCHANGED faults
  PROVE  faults' \in 0..MaxFaults
BY LimitsAssumption DEF Inv, TypeInv, Fault

LEMMA RefreshKeeps ==
  ASSUME Inv, Refresh
  PROVE  Inv'
<1>1. /\ job.op # "none" /\ job.pc = "refresh"
      /\ UNCHANGED <<busy, requests, pending, failed, closed, token, leases, same, admits,
                     drawn, faults, expired>>
  BY DEF Refresh, Holds, process
<1>2. CASE failed /\ Raises
  <2>1. failed' \in BOOLEAN /\ faults' \in 0..MaxFaults
        /\ leases' \subseteq Tokens /\ expired' \subseteq Tokens
    BY <1>1 DEF Inv, TypeInv
  <2> QED BY <1>1, <1>2, <2>1, RaisesKeeps
<1>3. CASE ~failed
  <2>1. PICK due \in {{}, Held} :
          job' = [job EXCEPT !.left = due, !.pc = IF due = {} THEN "hand" ELSE "renew"]
    BY <1>3 DEF Refresh
  <2>2. phase' = phase
    BY <1>3 DEF Refresh
  <2> DEFINE pc == IF due = {} THEN "hand" ELSE "renew"
             there == [job EXCEPT !.left = due]
  <2>3. due \in SUBSET Tokens
    <3>1. requests \subseteq Tokens /\ (pending # 0 => pending \in Tokens)
      BY LimitsAssumption DEF Inv, TypeInv, Tokens
    <3>2. Held \subseteq Tokens
      BY <3>1 DEF Held
    <3> QED BY <3>2
  <2>4. there \in JobType /\ there.op = job.op /\ there.who = job.who
    BY <2>3 DEF Inv, TypeInv, JobType
  <2>5. pc \in {"hand", "renew"} /\ job' = [there EXCEPT !.pc = pc]
    BY <2>1
  <2> HIDE DEF there, pc
  <2>6. OnAt(pc)
    BY <2>4, <2>5 DEF OnAt, JobType
  <2>7. TypeInv' /\ drawn <= drawn'
    BY <1>1, <2>2, <2>6 DEF Inv, TypeInv, OnAt
  <2> QED BY <1>1, <2>2, <2>5, <2>6, <2>7, OnKeeps
<1> QED BY <1>2, <1>3 DEF Refresh

LEMMA RenewKeeps ==
  ASSUME Inv, NEW k \in Tokens, Renew(k)
  PROVE  Inv'
<1>1. /\ job.op # "none" /\ job.pc = "renew"
      /\ UNCHANGED <<busy, requests, pending, closed, token, leases, same, admits, drawn, expired>>
      /\ Fault \/ UNCHANGED faults
  BY DEF Renew, Holds
<1>2. faults' \in 0..MaxFaults /\ leases' \subseteq Tokens /\ expired' \subseteq Tokens
  BY <1>1, FaultBounded DEF Inv, TypeInv
<1>3. CASE failed' = TRUE /\ Raises
  BY <1>1, <1>2, <1>3, RaisesKeeps
<1>4. CASE /\ job' = [job EXCEPT !.left = @ \ {k},
                                 !.pc = IF @ = "renew" /\ job.left = {k} THEN "hand" ELSE @]
           /\ UNCHANGED <<failed, phase, faults>>
  <2> DEFINE left == job.left \ {k}
             pc == IF job.left = {k} THEN "hand" ELSE "renew"
             there == [job EXCEPT !.left = left]
  <2>1. there \in JobType /\ there.op = job.op /\ there.who = job.who /\ there.pc = "renew"
    BY <1>1 DEF Inv, TypeInv, JobType
  <2>2. pc \in {"hand", "renew"} /\ job' = [there EXCEPT !.pc = pc]
    BY <1>1, <1>4, <2>1
  <2> HIDE DEF there, pc
  <2>3. OnAt(pc)
    BY <2>1, <2>2 DEF OnAt, JobType
  <2>4. TypeInv' /\ drawn <= drawn'
    BY <1>1, <1>4, <2>3 DEF Inv, TypeInv, OnAt
  <2> QED BY <1>1, <1>4, <2>2, <2>3, <2>4, OnKeeps
<1> QED BY <1>3, <1>4 DEF Renew

\* After its refresh a job goes on to what it is for.
LEMMA AfterIs ==
  ASSUME Inv, job.op # "none", NEW pc \in {"admit", "drop", "refresh", "done"},
         After(pc), Moves(pc)
  PROVE  \/ pc = "done" /\ job' = NoJob
         \/ /\ pc # "done" /\ OnAt(pc)
            /\ pc \in {"admit", "take"} => job.op \in {"begin", "finish"}
            /\ pc = "drop" => job.op = "finish"
<1>1. IF pc = "done" THEN job' = NoJob ELSE OnAt(pc)
  BY MovesOn DEF Inv
<1>2. job.op \in {"begin", "finish", "refresh"}
  BY DEF Inv, TypeInv, JobType
<1> QED BY <1>1, <1>2 DEF After

\* The pending lease changes hands, and the job goes on.
LEMMA HandedKeeps ==
  ASSUME Inv, UNCHANGED <<busy, requests, failed, closed, phase, token, same, admits, drawn,
                          faults, expired>>,
         job.op # "none", pending' \in 0..MaxLeases, pending' <= drawn,
         leases' \subseteq Tokens,
         requests \subseteq leases' \cup expired,
         pending' # 0 => pending' \in leases' \cup expired,
         busy => pending' # 0 \/ Others # {},
         NEW pc \in {"admit", "drop", "refresh", "done"}, After(pc), Moves(pc)
  PROVE  Inv'
<1>1. \/ pc = "done" /\ job' = NoJob
      \/ /\ pc # "done" /\ OnAt(pc)
         /\ pc \in {"admit", "take"} => job.op \in {"begin", "finish"}
         /\ pc = "drop" => job.op = "finish"
  BY AfterIs
<1>2. TypeInv'
  <2>1. job' \in JobType
    BY <1>1, NoJobType DEF OnAt
  <2> QED BY <2>1 DEF Inv, TypeInv
<1>3. TokenInv' /\ LeaseInv'
  BY DEF Inv, TokenInv, LeaseInv
<1>4. JobInv'
  BY <1>1, NoJobType DEF Inv, JobInv, OnAt
<1>5. ReleaseInv'
  BY <1>1, NoJobType DEF ReleaseInv, OnAt
<1>6. DropInv'
  <2>1. CASE job' = NoJob
    BY <2>1, NoJobType DEF DropInv
  <2>2. CASE OnAt(pc)
    <3>1. Others' = Others
      BY <2>2 DEF Others, OnAt
    <3> QED BY <3>1 DEF DropInv
  <2> QED BY <1>1, <2>1, <2>2
<1>7. BusyInv'
  BY DEF BusyInv, Others
<1> QED BY <1>2, <1>3, <1>4, <1>5, <1>6, <1>7 DEF Inv

LEMMA HandKeeps ==
  ASSUME Inv, Hand
  PROVE  Inv'
<1>1. /\ job.op # "none" /\ job.pc = "hand"
      /\ UNCHANGED <<busy, requests, failed, closed, phase, token, leases, same, admits, drawn,
                     faults, expired>>
  BY DEF Hand, Holds
<1>2. CASE ~busy /\ pending # 0 /\ pending \notin requests /\ Goes("release") /\ pending' = pending
  <2>1. OnAt("release")
    BY <1>2, GoesOn DEF Inv
  <2>2. TypeInv' /\ TokenInv' /\ LeaseInv'
    BY <1>1, <1>2, <2>1 DEF Inv, TypeInv, TokenInv, LeaseInv, OnAt
  <2>3. JobInv' /\ ReleaseInv' /\ DropInv' /\ BusyInv'
    BY <1>1, <1>2, <2>1 DEF Inv, JobInv, ReleaseInv, DropInv, BusyInv, OnAt
  <2> QED BY <2>2, <2>3 DEF Inv
<1>3. CASE /\ IF busy
              THEN IF pending # 0 THEN pending' = pending ELSE requests # {} /\ pending' \in requests
              ELSE (pending # 0 => pending \in requests) /\ pending' = 0
           /\ \E pc \in {"admit", "drop", "refresh", "done"} : After(pc) /\ Moves(pc)
  <2>1. PICK pc \in {"admit", "drop", "refresh", "done"} : After(pc) /\ Moves(pc)
    BY <1>3
  <2>2. /\ pending' = 0 \/ pending' = pending \/ pending' \in requests
        /\ busy => pending' # 0
    BY <1>3 DEF Inv, TypeInv, Tokens
  <2>3. requests \subseteq 0..MaxLeases /\ \A k \in requests : k <= drawn
    BY LimitsAssumption DEF Inv, TypeInv, Tokens, TokenInv
  <2>4. pending' \in 0..MaxLeases /\ pending' <= drawn
    <3>1. 0 \in 0..MaxLeases /\ 0 <= drawn
      BY LimitsAssumption DEF Inv, TypeInv
    <3>2. pending \in 0..MaxLeases /\ pending <= drawn
      BY DEF Inv, TypeInv, TokenInv
    <3>3. CASE pending' \in requests
      BY <3>3, <2>3
    <3> QED BY <2>2, <3>1, <3>2, <3>3
  <2>5. requests \subseteq leases' \cup expired
        /\ (pending' # 0 => pending' \in leases' \cup expired) /\ leases' \subseteq Tokens
    BY <1>1, <2>2 DEF Inv, LeaseInv, TypeInv
  <2> QED BY <1>1, <2>1, <2>2, <2>4, <2>5, HandedKeeps
<1> QED BY <1>2, <1>3 DEF Hand

LEMMA ReleaseKeeps ==
  ASSUME Inv, Release
  PROVE  Inv'
<1>1. /\ job.op # "none" /\ job.pc = "release"
      /\ UNCHANGED <<busy, requests, failed, closed, token, same, admits, drawn>>
      /\ pending # 0 /\ pending \notin requests /\ (busy => Others # {})
  BY DEF Release, Holds, Inv, ReleaseInv
<1>2. CASE /\ leases' = leases \ {pending} /\ pending' = 0
           /\ \E pc \in {"admit", "drop", "refresh", "done"} : After(pc) /\ Moves(pc)
           /\ UNCHANGED <<faults, phase, expired>>
  <2>1. PICK pc \in {"admit", "drop", "refresh", "done"} : After(pc) /\ Moves(pc)
    BY <1>2
  <2>2. requests \subseteq leases' \cup expired /\ leases' \subseteq Tokens
    BY <1>1, <1>2 DEF Inv, LeaseInv, TypeInv
  <2>3. pending' \in 0..MaxLeases /\ pending' <= drawn
    BY <1>2, LimitsAssumption DEF Inv, TypeInv
  <2> QED BY <1>1, <1>2, <2>1, <2>2, <2>3, HandedKeeps
<1>3. CASE /\ Fault /\ Raises /\ UNCHANGED pending
           /\ leases' \in {leases, leases \ {pending}}
           /\ expired' = expired \cup (leases \ leases')
  <2>1. /\ faults' \in 0..MaxFaults /\ leases' \subseteq Tokens /\ expired' \subseteq Tokens
        /\ leases \cup expired \subseteq leases' \cup expired'
    BY <1>3, FaultBounded DEF Inv, TypeInv
  <2>2. failed' \in BOOLEAN
    BY <1>1 DEF Inv, TypeInv
  <2> QED BY <1>1, <1>3, <2>1, <2>2, RaisesKeeps
<1> QED BY <1>2, <1>3 DEF Release

LEMMA AdmitKeeps ==
  ASSUME Inv, Admit
  PROVE  Inv'
<1>1. /\ job.op # "none" /\ job.pc = "admit" /\ job.op \in {"begin", "finish"}
      /\ UNCHANGED <<busy, requests, pending, closed, token, leases, same, admits, drawn, expired>>
      /\ Fault \/ UNCHANGED faults
      /\ failed' = failed \/ failed' = TRUE
  BY DEF Admit, Holds, Inv, JobInv
<1>2. /\ faults' \in 0..MaxFaults /\ leases' \subseteq Tokens /\ expired' \subseteq Tokens
  BY <1>1, FaultBounded DEF Inv, TypeInv
<1>0. failed' = failed \/ failed' = TRUE
  BY <1>1, Zenon
<1>7. failed' \in BOOLEAN
  BY <1>0, Zenon DEF Inv, TypeInv
<1>8. failed => failed'
  BY <1>0, Zenon
<1>3. failed' \in BOOLEAN /\ (failed => failed')
  BY <1>7, <1>8, Zenon
<1>4. job.op = "finish" /\ busy /\ ~failed' => pending # 0 \/ Others # {}
  BY <1>1, <1>3 DEF Inv, DropInv
<1>5. CASE Raises
  BY <1>1, <1>2, <1>3, <1>4, <1>5, RaisesKeeps
<1>6. CASE Goes("take") /\ UNCHANGED <<failed, phase, faults>>
  <2>1. OnAt("take")
    BY <1>6, GoesOn DEF Inv
  <2>2. TypeInv' /\ drawn <= drawn'
    BY <1>1, <1>6, <2>1 DEF Inv, TypeInv, OnAt
  <2> QED BY <1>1, <1>4, <1>6, <2>1, <2>2, OnKeeps
<1> QED BY <1>5, <1>6 DEF Admit

\* A request is given its token.
LEMMA TakeKeeps ==
  ASSUME Inv, Take
  PROVE  Inv'
<1> DEFINE r == job.who
<1>1. /\ job.pc = "take" /\ job.op = "begin" /\ r \in Requests
      /\ phase[r] \in {"begin", "abandoned"}
      /\ UNCHANGED <<busy, pending, failed, closed, same, admits, expired>>
  BY DEF Take, Holds, Inv, JobInv
<1>2. token[r] = 0
  BY <1>1 DEF Inv, TokenInv, Early
<1>3. CASE /\ IF CanBegin THEN Fault ELSE UNCHANGED faults
           /\ Raises /\ UNCHANGED <<drawn, requests, token>> /\ leases' = leases
  <2>1. faults' \in 0..MaxFaults
    BY <1>3, FaultBounded
  <2>2. failed' \in BOOLEAN /\ leases' \subseteq Tokens /\ expired' \subseteq Tokens
    BY <1>1, <1>3 DEF Inv, TypeInv
  <2> QED BY <1>1, <1>3, <2>1, <2>2, RaisesKeeps
<1>4. CASE /\ CanBegin
           /\ drawn' = drawn + 1 /\ leases' = leases \cup {drawn'}
           /\ requests' = requests \cup {drawn'} /\ token' = [token EXCEPT ![r] = drawn']
           /\ phase' = [phase EXCEPT ![r] = CASE @ = "begin" -> "handle"
                                                [] closed -> "failing"
                                                [] OTHER -> "abandoning"]
           /\ job' = NoJob /\ UNCHANGED faults
  <2> DEFINE k == drawn + 1
  <2>1. k \in Tokens /\ k \in 0..MaxLeases /\ k # 0 /\ drawn \in Nat
    BY <1>4, LimitsAssumption DEF Inv, TypeInv, CanBegin, Tokens
  <2>2. drawn' = k /\ leases' = leases \cup {k} /\ requests' = requests \cup {k}
    BY <1>4
  <2> HIDE DEF k
  <2>3. /\ token' \in [Requests -> 0..MaxLeases] /\ token'[r] = k
        /\ \A s \in Requests \ {r} : token'[s] = token[s]
    BY <1>1, <1>4, <2>1, <2>2 DEF Inv, TypeInv
  <2>4. /\ phase' \in [Requests -> Phases]
        /\ phase'[r] \in {"handle", "failing", "abandoning"}
        /\ \A s \in Requests \ {r} : phase'[s] = phase[s]
    BY <1>1, <1>4 DEF Inv, TypeInv, Phases
  <2>5. TypeInv'
    BY <1>1, <1>4, <2>1, <2>2, <2>3, <2>4, NoJobType DEF Inv, TypeInv
  <2>6. \A s \in Requests : token[s] \in Nat /\ token[s] < k
    BY <2>1 DEF k, Inv, TypeInv, TokenInv
  <2>7. TokenInv'
    <3>1. \A s, t \in Requests : token'[s] # 0 /\ token'[s] = token'[t] => s = t
      BY <2>3, <2>6 DEF Inv, TokenInv
    <3>2. \A s \in Requests : token'[s] <= drawn'
      BY <2>1, <2>2, <2>3, <2>6
    <3>3. \A s \in Requests : phase'[s] \in Early => token'[s] = 0
      BY <2>3, <2>4 DEF Inv, TokenInv, Early
    <3>4. \A s \in Requests : phase'[s] \in Keeping => token'[s] \in requests'
      BY <2>2, <2>3, <2>4 DEF Inv, TokenInv
    <3>5. pending' <= drawn' /\ \A j \in requests' : j <= drawn'
      <4>1. pending \in Nat /\ pending <= drawn /\ \A j \in requests : j \in Nat /\ j <= drawn
        BY DEF Inv, TokenInv, TypeInv, Tokens
      <4> QED BY <1>1, <2>1, <2>2, <4>1 DEF k
    <3> QED BY <3>1, <3>2, <3>3, <3>4, <3>5 DEF TokenInv
  <2>8. LeaseInv'
    BY <1>1, <2>2 DEF Inv, LeaseInv
  <2>9. JobInv' /\ ReleaseInv' /\ DropInv' /\ BusyInv'
    BY <1>4, <2>2, NoJobType DEF JobInv, ReleaseInv, DropInv, BusyInv
  <2> QED BY <2>5, <2>7, <2>8, <2>9 DEF Inv
<1> QED BY <1>3, <1>4 DEF Take

LEMMA ActKeeps ==
  ASSUME Inv, Act
  PROVE  Inv'
<1>1. /\ job.op = "finish" /\ job.pc = "take" /\ Goes("drop")
      /\ UNCHANGED <<busy, requests, pending, failed, closed, phase, token, same, admits, expired>>
      /\ Fault \/ UNCHANGED faults
  BY DEF Act, Holds, process
<1>2. OnAt("drop") /\ faults' \in 0..MaxFaults
  BY <1>1, GoesOn, FaultBounded DEF Inv
<1>3. /\ drawn' \in 0..MaxLeases /\ drawn <= drawn'
      /\ leases' \subseteq Tokens /\ leases \subseteq leases'
  <2>1. CASE CanBegin /\ drawn' = drawn + 1 /\ leases' = leases \cup {drawn'}
    <3>1. drawn' \in 1..MaxLeases /\ drawn' \in 0..MaxLeases /\ drawn <= drawn'
      BY <2>1, LimitsAssumption DEF CanBegin, Inv, TypeInv
    <3> QED BY <2>1, <3>1 DEF Inv, TypeInv, Tokens
  <2>2. CASE UNCHANGED <<drawn, leases, faults>>
    BY <2>2 DEF Inv, TypeInv
  <2> QED BY <2>1, <2>2 DEF Act
<1>4. TypeInv'
  BY <1>1, <1>2, <1>3 DEF Inv, TypeInv, OnAt
<1>5. job.op = "finish" /\ busy /\ ~failed => pending # 0 \/ Others # {}
  BY <1>1 DEF Inv, DropInv
<1> QED BY <1>1, <1>2, <1>3, <1>4, <1>5, OnKeeps

\* A request gives its token back.
LEMMA DropKeeps ==
  ASSUME Inv, Drop
  PROVE  Inv'
<1> DEFINE r == job.who
           k == token[r]
<1>1. /\ job.op = "finish" /\ job.pc = "drop" /\ r \in Requests
      /\ phase[r] \in {"finish", "abandoning"}
      /\ requests' = requests \ {k} /\ job' = NoJob
      /\ UNCHANGED <<busy, pending, failed, closed, token, same, admits, drawn, expired>>
      /\ Fault \/ UNCHANGED faults
  BY DEF Drop, Holds, Inv, JobInv
<1>2. Over(r)
  <2>1. \E error \in {job.error, TRUE} : Ended(r, error)
    BY DEF Drop
  <2> QED BY <1>1, <2>1, EndedOver DEF Inv
<1>3. leases' \subseteq leases /\ leases \ {k} \subseteq leases' /\ (k = pending => leases' = leases)
  BY DEF Drop
<1>4. k \in requests /\ k # 0
  BY <1>1 DEF Inv, TokenInv, TypeInv, Keeping, Tokens
<1>5. Others = requests' /\ faults' \in 0..MaxFaults
  BY <1>1, FaultBounded DEF Others
<1>6. \A s \in Requests \ {r} : token[s] # k
  BY <1>1, <1>4 DEF Inv, TokenInv
<1> HIDE DEF k
<1>7. TypeInv'
  BY <1>1, <1>2, <1>3, <1>5, NoJobType DEF Inv, TypeInv, Over
<1>8. TokenInv'
  <2>1. \A s \in Requests : phase'[s] \in Early => phase[s] \in Early
    BY <1>2 DEF Over, Early
  <2>2. \A s \in Requests : phase'[s] \in Keeping => token[s] \in requests'
    BY <1>1, <1>2, <1>6 DEF Over, Keeping, Inv, TokenInv
  <2> QED BY <1>1, <2>1, <2>2 DEF Inv, TokenInv
<1>9. LeaseInv'
  BY <1>1, <1>3 DEF Inv, LeaseInv
<1>10. BusyInv'
  BY <1>1, <1>5 DEF Inv, DropInv, BusyInv
<1>11. JobInv' /\ ReleaseInv' /\ DropInv'
  BY <1>1, NoJobType DEF JobInv, ReleaseInv, DropInv
<1> QED BY <1>7, <1>8, <1>9, <1>10, <1>11 DEF Inv

LEMMA CloseEndsKeeps ==
  ASSUME Inv, CloseEnds
  PROVE  Inv'
<1>1. /\ job = NoJob /\ ~busy /\ phase' = [r \in Requests |-> "done"]
      /\ requests' = requests \cap {pending} /\ leases' = leases \ (requests \ {pending})
      /\ UNCHANGED <<busy, pending, failed, closed, job, token, same, admits, drawn, faults, expired>>
  BY DEF CloseEnds
<1>2. TypeInv'
  BY <1>1 DEF Inv, TypeInv, Phases
<1>3. TokenInv'
  BY <1>1 DEF Inv, TokenInv, Early, Keeping
<1>4. LeaseInv'
  BY <1>1 DEF Inv, LeaseInv
<1>5. JobInv' /\ ReleaseInv' /\ DropInv' /\ BusyInv'
  BY <1>1, NoJobType DEF JobInv, ReleaseInv, DropInv, BusyInv
<1> QED BY <1>2, <1>3, <1>4, <1>5 DEF Inv

LEMMA InitInv == Init => Inv
<1> SUFFICES ASSUME Init PROVE Inv
  OBVIOUS
<1>1. TypeInv
  <2>1. /\ busy \in BOOLEAN /\ failed \in BOOLEAN /\ closed \in BOOLEAN
        /\ same \in BOOLEAN /\ admits \in BOOLEAN
    BY Zenon DEF Init
  <2>2. 0 \in 0..MaxLeases /\ 0 \in 0..MaxFaults
    BY LimitsAssumption
  <2>3. phase \in [Requests -> Phases] /\ token \in [Requests -> 0..MaxLeases]
    BY <2>2 DEF Init, Phases
  <2>4. job \in JobType
    BY NoJobType, Zenon DEF Init
  <2>5. requests \subseteq Tokens /\ leases \subseteq Tokens /\ expired \subseteq Tokens
    BY DEF Init
  <2>6. pending \in 0..MaxLeases /\ drawn \in 0..MaxLeases /\ faults \in 0..MaxFaults
    BY <2>2 DEF Init
  <2> QED BY <2>1, <2>3, <2>4, <2>5, <2>6, Zenon DEF TypeInv
<1>2. TokenInv /\ LeaseInv
  BY LimitsAssumption DEF Init, TokenInv, LeaseInv, Early, Keeping
<1>3. JobInv /\ ReleaseInv /\ DropInv /\ BusyInv
  BY NoJobType DEF Init, JobInv, ReleaseInv, DropInv, BusyInv
<1> QED BY <1>1, <1>2, <1>3 DEF Inv

LEMMA NextInv ==
  ASSUME Inv, [Next]_vars
  PROVE  Inv'
<1>1. ASSUME NEW r \in Requests,
             \/ AskBegin(r) \/ CancelBegin(r) \/ LeaveWork(r) \/ AskFinish(r) \/ GiveUp(r)
             \/ Start("begin", r) \/ Start("finish", r)
      PROVE  Inv'
  BY <1>1, RequestKeeps, WorkKeeps, StartKeeps
<1>2. CASE Start("refresh", None)
  BY <1>2, StartKeeps
<1>3. CASE Step
  BY <1>3, RefreshKeeps, HandKeeps, ReleaseKeeps, AdmitKeeps, TakeKeeps, ActKeeps, DropKeeps,
     RenewKeeps DEF Step
<1>4. CASE \/ WorkEnds \/ Close \/ Health \/ Stop \/ UNCHANGED vars
           \/ \E k \in Tokens : Expires(k) \/ Late(k)
  BY <1>4, WorldKeeps
<1>5. CASE CloseEnds
  BY <1>5, CloseEndsKeeps
<1> QED BY <1>1, <1>2, <1>3, <1>4, <1>5 DEF Next

LEMMA Inductive == Spec => []Inv
BY InitInv, NextInv, PTL DEF Spec


----------------------------------------------------------------------------
(* The tokens in the books.                                                  *)

\* Every token in the books is that of a request that needs it.
RequestInv ==
  \A k \in requests : \E r \in Requests : token[r] = k /\ (closed \/ phase[r] \in Keeping)

\* The jobs of all requests never exceed the queue.
Few == Cardinality(Requests) <= MaxJobs

\* A request that asks to be finished is refused only by a process that closes: the
\* others alone cannot fill the queue.
LEMMA FinishIsAccepted ==
  ASSUME Few, TypeInv, NEW r \in Requests, phase[r] = "handle"
  PROVE  AcceptsJob \/ closed
<1>1. Jobs \subseteq Requests \ {r}
  BY DEF Jobs, Waiting
<1>2. IsFiniteSet(Requests \ {r}) /\ Cardinality(Requests \ {r}) = Cardinality(Requests) - 1
  BY RequestsAssumption, FS_RemoveElement
<1>3. Cardinality(Jobs) <= Cardinality(Requests) - 1 /\ Cardinality(Jobs) \in Nat
  BY <1>1, <1>2, FS_Subset, FS_CardinalityType
<1>4. Cardinality(Requests) \in Nat
  BY RequestsAssumption, FS_CardinalityType
<1>5. Cardinality(Jobs) < MaxJobs
  BY <1>3, <1>4, LimitsAssumption DEF Few
<1> QED BY <1>5 DEF AcceptsJob

\* Tokens are where they were, and requests that need theirs go on needing them.
LEMMA RequestsStay ==
  ASSUME RequestInv, requests' = requests, token' = token, closed => closed',
         \A r \in Requests : phase[r] \in Keeping => closed' \/ phase'[r] \in Keeping
  PROVE  RequestInv'
BY DEF RequestInv

LEMMA RaisesStay ==
  ASSUME Inv, RequestInv, Raises, job.op # "none", UNCHANGED <<requests, token, closed>>
  PROVE  RequestInv'
<1>1. phase' = phase \/ (job.op = "begin" /\ Over(job.who))
  BY RaisesMoves DEF Inv
<1>2. CASE job.op = "begin" /\ Over(job.who)
  <2>1. job.who \in Requests /\ phase[job.who] \notin Keeping
    BY <1>2 DEF Inv, JobInv, Keeping
  <2>2. \A r \in Requests : phase[r] \in Keeping => phase'[r] \in Keeping
    BY <1>2, <2>1 DEF Over
  <2> QED BY <2>2, RequestsStay
<1> QED BY <1>1, <1>2, RequestsStay

LEMMA RequestStepStays ==
  ASSUME Few, Inv, RequestInv, NEW r \in Requests,
         AskBegin(r) \/ CancelBegin(r) \/ LeaveWork(r) \/ AskFinish(r) \/ GiveUp(r)
  PROVE  RequestInv'
<1>1. phase \in [Requests -> Phases]
  BY DEF Inv, TypeInv
<1>2. CASE AskBegin(r) \/ CancelBegin(r) \/ GiveUp(r)
  <2>1. phase[r] \notin Keeping /\ \A s \in Requests \ {r} : phase'[s] = phase[s]
    BY <1>1, <1>2 DEF AskBegin, CancelBegin, GiveUp, Keeping
  <2>2. UNCHANGED <<requests, token, closed>>
    BY <1>2 DEF AskBegin, CancelBegin, GiveUp, process
  <2> QED BY <2>1, <2>2, RequestsStay
<1>3. CASE LeaveWork(r)
  BY <1>3, RequestsStay DEF LeaveWork, process
<1>4. CASE AskFinish(r)
  <2>1. AcceptsJob \/ closed
    BY <1>4, FinishIsAccepted DEF AskFinish, Inv
  <2>2. phase'[r] = (IF AcceptsJob THEN "finish" ELSE "done")
        /\ \A s \in Requests \ {r} : phase'[s] = phase[s]
    BY <1>1, <1>4 DEF AskFinish
  <2>3. UNCHANGED <<requests, token, closed>>
    BY <1>4 DEF AskFinish, process
  <2>4. \A s \in Requests : phase[s] \in Keeping => closed' \/ phase'[s] \in Keeping
    BY <2>1, <2>2, <2>3 DEF Keeping
  <2> QED BY <2>3, <2>4, RequestsStay
<1> QED BY <1>2, <1>3, <1>4

LEMMA WorldStays ==
  ASSUME Inv, RequestInv,
         \/ WorkEnds \/ Close \/ Health \/ Stop \/ UNCHANGED vars
         \/ \E k \in Tokens : Expires(k) \/ Late(k)
  PROVE  RequestInv'
<1>1. UNCHANGED <<requests, token, phase>> /\ (closed => closed')
  BY DEF WorkEnds, Close, Health, Stop, Expires, Late, vars, process
<1> QED BY <1>1, RequestsStay

LEMMA CloseEndsStays ==
  ASSUME Inv, RequestInv, CloseEnds
  PROVE  RequestInv'
BY DEF CloseEnds, RequestInv

LEMMA TakeStays ==
  ASSUME Inv, RequestInv, Take
  PROVE  RequestInv'
<1> DEFINE r == job.who
<1>1. /\ job.op = "begin" /\ r \in Requests /\ phase[r] \in {"begin", "abandoned"}
      /\ closed' = closed /\ token[r] = 0
  BY DEF Take, Holds, Inv, JobInv, TokenInv, Early
<1>2. CASE Raises /\ UNCHANGED <<requests, token>>
  BY <1>1, <1>2, RaisesStay
<1>3. CASE /\ requests' = requests \cup {drawn'} /\ token' = [token EXCEPT ![r] = drawn']
           /\ phase' = [phase EXCEPT ![r] = CASE @ = "begin" -> "handle"
                                                [] closed -> "failing"
                                                [] OTHER -> "abandoning"]
  <2>1. token'[r] = drawn' /\ \A s \in Requests \ {r} : token'[s] = token[s]
    BY <1>1, <1>3 DEF Inv, TypeInv
  <2>2. /\ closed' \/ phase'[r] \in Keeping
        /\ \A s \in Requests \ {r} : phase'[s] = phase[s]
    BY <1>1, <1>3 DEF Inv, TypeInv, Keeping
  <2>3. \A k \in requests : k # 0
    BY DEF Inv, TypeInv, Tokens
  <2>4. \A k \in requests :
          \E s \in Requests \ {r} : token[s] = k /\ (closed \/ phase[s] \in Keeping)
    BY <1>1, <2>3 DEF RequestInv
  <2> QED BY <1>1, <1>3, <2>1, <2>2, <2>4 DEF RequestInv
<1> QED BY <1>2, <1>3 DEF Take

LEMMA DropStays ==
  ASSUME Inv, RequestInv, Drop
  PROVE  RequestInv'
<1> DEFINE r == job.who
<1>1. /\ r \in Requests /\ requests' = requests \ {token[r]}
      /\ UNCHANGED <<closed, token>>
      /\ \E error \in {job.error, TRUE} : Ended(r, error)
  BY DEF Drop, Holds, Inv, JobInv
<1>2. Over(r)
  BY <1>1, EndedOver DEF Inv
<1> QED BY <1>1, <1>2 DEF RequestInv, Over

LEMMA StepStays ==
  ASSUME Inv, RequestInv, Step
  PROVE  RequestInv'
<1>1. CASE Refresh
  <2>1. UNCHANGED <<requests, token, closed>> /\ job.op # "none"
    BY <1>1 DEF Refresh, Holds, process
  <2>2. Raises \/ phase' = phase
    BY <1>1 DEF Refresh
  <2> QED BY <2>1, <2>2, RaisesStay, RequestsStay
<1>2. ASSUME NEW k \in Tokens, Renew(k) PROVE RequestInv'
  <2>1. UNCHANGED <<requests, token, closed>> /\ job.op # "none" /\ (Raises \/ phase' = phase)
    BY <1>2 DEF Renew, Holds
  <2> QED BY <2>1, RaisesStay, RequestsStay
<1>3. CASE Hand \/ Act
  BY <1>3, RequestsStay DEF Hand, Act, process
<1>4. CASE Release
  <2>1. UNCHANGED <<requests, token, closed>> /\ job.op # "none" /\ (Raises \/ phase' = phase)
    BY <1>4 DEF Release, Holds
  <2> QED BY <2>1, RaisesStay, RequestsStay
<1>5. CASE Admit
  <2>1. UNCHANGED <<requests, token, closed>> /\ job.op # "none" /\ (Raises \/ phase' = phase)
    BY <1>5 DEF Admit, Holds
  <2> QED BY <2>1, RaisesStay, RequestsStay
<1> QED BY <1>1, <1>2, <1>3, <1>4, <1>5, TakeStays, DropStays DEF Step

LEMMA NextStays ==
  ASSUME Few, Inv, RequestInv, [Next]_vars
  PROVE  RequestInv'
<1>1. ASSUME NEW r \in Requests \cup {None}, NEW op, Start(op, r) PROVE RequestInv'
  BY <1>1, RequestsStay DEF Start, process
<1>2. ASSUME NEW r \in Requests,
             \/ AskBegin(r) \/ CancelBegin(r) \/ LeaveWork(r) \/ AskFinish(r) \/ GiveUp(r)
             \/ Start("begin", r) \/ Start("finish", r)
      PROVE  RequestInv'
  BY <1>1, <1>2, RequestStepStays
<1>3. CASE Start("refresh", None)
  BY <1>1, <1>3
<1>4. CASE Step
  BY <1>4, StepStays
<1>5. CASE \/ WorkEnds \/ Close \/ Health \/ Stop \/ UNCHANGED vars
           \/ \E k \in Tokens : Expires(k) \/ Late(k)
  BY <1>5, WorldStays
<1>6. CASE CloseEnds
  BY <1>6, CloseEndsStays
<1> QED BY <1>2, <1>3, <1>4, <1>5, <1>6 DEF Next

----------------------------------------------------------------------------
(* The theorems.                                                             *)

LEMMA InvType == TypeInv => TypeOK
BY DEF TypeInv, TypeOK, JobType

LEMMA InvProtects == Inv => PendingWorkIsProtected
<1> SUFFICES ASSUME Inv, busy, ~failed PROVE Held \cap (leases \cup expired) # {}
  BY DEF PendingWorkIsProtected
<1>1. pending # 0 \/ requests # {}
  BY DEF Inv, BusyInv
<1>2. CASE pending # 0
  BY <1>2 DEF Held, Inv, LeaseInv
<1>3. CASE requests # {}
  <2>1. PICK k \in requests : TRUE
    BY <1>3
  <2> QED BY <2>1 DEF Held, Inv, LeaseInv
<1> QED BY <1>1, <1>2, <1>3

\* TypeCorrect: the books of the process, its job and the leases keep their shape
\* (lifecycle/async_work.py).
THEOREM TypeCorrect == Spec => []TypeOK
<1>1. Inv => TypeOK
  BY InvType DEF Inv
<1> QED BY <1>1, Inductive, PTL

\* PendingIsProtected: however many requests there are, and whatever fails or expires,
\* a process that has its authority never gives up the last lease under a pending Task
\* (lifecycle/async_work.py: _refresh, finish).
THEOREM PendingIsProtected == Spec => []PendingWorkIsProtected
BY Inductive, InvProtects, PTL

\* LeasesAreHeld: where all requests together do not fill the queue of jobs, no token
\* either outlives its request in the books of a process that has not been closed.
THEOREM LeasesAreHeld ==
  ASSUME Cardinality(Requests) <= MaxJobs
  PROVE  Spec => []LeasesHold
<1>0. Few
  BY DEF Few
<1>1. Init => RequestInv
  BY DEF Init, RequestInv
<1>2. Inv /\ RequestInv /\ [Next]_vars => RequestInv'
  BY <1>0, NextStays
<1>3. Inv /\ RequestInv => LeasesHold
  <2>1. RequestInv => TokensHaveRequests
    BY DEF RequestInv, TokensHaveRequests, Keeping
  <2> QED BY <2>1, InvType, InvProtects DEF LeasesHold, Inv
<1> QED BY <1>1, <1>2, <1>3, Inductive, PTL DEF Spec

-----------------------------------------------------------------------------
(* HostAssembly: however the host is closed, the SDK client is last.  A       *)
(* closer that was not cancelled has closed every stage it has passed, what   *)
(* is closed stays so whatever the others do, and a cancelled drain begins    *)
(* again before it comes to the SDK.                                          *)
HostConstants ==
  /\ MaxCuts \in Nat /\ Nil \notin {"running", "stopping"}
  /\ Callers \cap Host!Closers = {}

\* What closes a stage, and stays so.
Closed(s) ==
  CASE s = "checks" -> "checks" \in shut /\ guarded["checks"] = {}
    [] s = "provider" -> refusing /\ \A c \in Callers : ~Host!Verifying(c)
    [] s = "jobs" -> sealed /\ jobs = {}
    [] s = "work io" -> "work" \in shut /\ guarded["work"] = {}
    [] s = "admission" -> closer["drain"] = "ended"
    [] s = "admission io" -> "admission" \in shut /\ guarded["admission"] = {}
    [] s = "sdk" -> sdk = 1
    [] OTHER -> TRUE

\* Whoever was not cancelled has closed every stage it has passed.
StageInv ==
  \A p \in Host!Closers : ~cut[p] =>
    \A s \in Host!Way(p) :
      Host!Has(s) /\ Host!Position(s) < Host!Position(closer[p]) => Closed(s)

\* Where a closer can stand, and what it did when it came there.
EnteredInv ==
  \A p \in Host!Closers :
    /\ closer[p] \in Host!Way(p) \cup {"idle", "created", "ended"}
    /\ closer[p] \in Host!Way(p) => Host!Has(closer[p])
    /\ closer[p] = "checks" => "checks" \in shut
    /\ closer[p] = "provider" => refusing
    /\ closer[p] = "jobs" => sealed
    /\ closer[p] = "work io" => "work" \in shut
    /\ closer[p] = "admission io" => "admission" \in shut
    /\ closer[p] = "sdk" => sdk = 1

\* A drain that was cancelled begins again before it goes on to the SDK.
DrainInv ==
  /\ cut["drain"] => closer["drain"] \in {"jobs", "tokens", "work io"}
  /\ closer["drain"] # "idle" => "admission" \in built
  /\ sdk = 1 => "admission" \notin built \/ closer["drain"] \in {"sdk", "ended"}

\* What was not constructed does nothing.
IdleInv ==
  /\ built # Host!Resources =>
       /\ jobs = {} /\ closer["lifespan"] = "idle"
       /\ guarded["admission"] = {} /\ guarded["checks"] = {} /\ guarded["work"] \cap Callers = {}
       /\ \A c \in Callers : ~Host!Verifying(c) /\ asks[c].at = "new"
  /\ "work" \notin built => guarded["work"] = {}

FlightInv == \A c \in Callers : Host!Verifying(c) => c = flight

\* What a caller may have been told, and who works.
Reads(c) ==
  /\ asks[c].told => asks[c].at = "told"
  /\ asks[c].at \in {"reading", "searching", "reading again"} =>
       asks[c].what \notin {"work", "probe"}
Granted(c) ==
  asks[c].at \in Host!Work \cup {"working"} \/ (asks[c].what \in {"work", "probe"} /\ asks[c].told)
    => verification[c] = "true"
CallersInv == \A c \in Callers : Reads(c) /\ Granted(c)

HostInv ==
  /\ Host!TypeOK /\ StageInv /\ EnteredInv /\ DrainInv /\ IdleInv /\ FlightInv /\ CallersInv

-----------------------------------------------------------------------------
LEMMA Positions ==
  /\ Host!Position("idle") = 0 /\ Host!Position("created") = 0 /\ Host!Position("checks") = 1
  /\ Host!Position("provider") = 2 /\ Host!Position("jobs") = 3 /\ Host!Position("tokens") = 4
  /\ Host!Position("work io") = 5 /\ Host!Position("admission") = 6
  /\ Host!Position("admission io") = 7 /\ Host!Position("sdk") = 8
  /\ Host!Position("service") = 9 /\ Host!Position("ended") = 10
BY DEF Host!Position

LEMMA WaysAreStages ==
  /\ \A p : Host!Way(p) \subseteq Host!Stages \ {"idle", "created", "ended"}
  /\ "checks" \notin Host!Way("drain") /\ "admission" \notin Host!Way("drain")
BY DEF Host!Way, Host!Stages, Host!Close

LEMMA PositionTypes == \A s \in Host!Stages : Host!Position(s) \in 0..10
<1>1. \A s \in Host!Stages : Host!Position(s) \in {0, 1, 2, 3, 4, 5, 6, 7, 8, 9, 10}
  BY Positions DEF Host!Stages
<1> QED BY <1>1

LEMMA AssemblyInit == HostConstants /\ Host!Init => HostInv
<1> SUFFICES ASSUME HostConstants, Host!Init PROVE HostInv
  OBVIOUS
<1> USE DEF Host!Init
<1>1. Host!TypeOK
  <2>1. built \in Host!Prefixes /\ flight \in Callers \cup {Nil} /\ refusing \in BOOLEAN
    OBVIOUS
  <2>2. verification \in [Callers -> {Nil, "running", "stopping", "true", "false"}]
    OBVIOUS
  <2>3. asks \in [Callers -> [what : Host!Questions \cup {Nil}, at : Host!Places,
                              told : BOOLEAN, same : BOOLEAN]]
    BY DEF Host!Places
  <2>4. guarded \in [Host!IO -> SUBSET (Callers \cup Host!Closers)]
    OBVIOUS
  <2>5. closer \in [Host!Closers -> Host!Stages] /\ cut \in [Host!Closers -> BOOLEAN]
    BY DEF Host!Stages
  <2>6. sdk \in 0..1 /\ cuts \in 0..MaxCuts
    BY DEF HostConstants
  <2>7. /\ jobs \subseteq Callers /\ sealed \in BOOLEAN /\ failing \in BOOLEAN
        /\ shut \subseteq Host!IO /\ bindings \in BOOLEAN
    OBVIOUS
  <2> QED BY <2>1, <2>2, <2>3, <2>4, <2>5, <2>6, <2>7 DEF Host!TypeOK
<1>2. StageInv
  <2>1. \A p \in Host!Closers : Host!Position(closer[p]) = 0
    BY Positions
  <2> QED BY <2>1, WaysAreStages, PositionTypes DEF StageInv
<1>3. EnteredInv
  <2>1. \A p \in Host!Closers : closer[p] = "idle"
    OBVIOUS
  <2> QED BY <2>1, WaysAreStages DEF EnteredInv
<1>4. DrainInv
  BY DEF DrainInv, Host!Closers
<1>5. \A c \in Callers : ~Host!Verifying(c)
  BY DEF Host!Verifying, HostConstants
<1>6. IdleInv
  BY <1>5 DEF IdleInv, Host!IO, Host!Closers
<1>7. FlightInv /\ CallersInv
  BY <1>5 DEF FlightInv, CallersInv, Reads, Granted, Host!Work
<1> QED BY <1>1, <1>2, <1>3, <1>4, <1>6, <1>7 DEF HostInv

-----------------------------------------------------------------------------
\* A step of a caller, a thread or the world opens nothing that was closed.
Quiets ==
  /\ UNCHANGED <<built, cuts, closer, cut, sdk, refusing, sealed, shut>>
  /\ refusing => \A c \in Callers : Host!Verifying(c)' => Host!Verifying(c)
  /\ sealed => jobs' \subseteq jobs
  /\ \A io \in shut : guarded'[io] \subseteq guarded[io]

LEMMA QuietStep ==
  ASSUME StageInv, EnteredInv, DrainInv, Quiets
  PROVE  StageInv' /\ EnteredInv' /\ DrainInv'
<1>1. \A s : Closed(s) => Closed(s)'
  <2> SUFFICES ASSUME NEW s, Closed(s) PROVE Closed(s)'
    OBVIOUS
  <2>1. CASE s = "provider"
    BY <2>1 DEF Closed, Quiets
  <2>2. CASE s # "provider"
    BY <2>2 DEF Closed, Quiets
  <2> QED BY <2>1, <2>2
<1>2. \A s : Host!Has(s)' <=> Host!Has(s)
  BY DEF Quiets, Host!Has
<1>3. \A p : Host!Way(p)' = Host!Way(p)
  BY DEF Quiets, Host!Way
<1>4. StageInv'
  BY <1>1, <1>2, <1>3 DEF StageInv, Quiets
<1>5. EnteredInv'
  BY <1>2, <1>3 DEF EnteredInv, Quiets
<1>6. DrainInv'
  BY DEF DrainInv, Quiets
<1> QED BY <1>4, <1>5, <1>6

\* What the invariant says of the callers, and how a step of one of them keeps it.
CallerInv == IdleInv /\ FlightInv /\ CallersInv

AskType == [what : Host!Questions \cup {Nil}, at : Host!Places, told : BOOLEAN, same : BOOLEAN]
Only(c, w, a, b, alike) ==
  /\ asks' \in [Callers -> AskType]
  /\ asks'[c].what = w /\ asks'[c].at = a /\ asks'[c].told = b /\ asks'[c].same = alike
  /\ \A d \in Callers : d # c => asks'[d] = asks[d]

LEMMA TellsOnly ==
  ASSUME Host!TypeOK, NEW c \in Callers, NEW answer \in BOOLEAN, Host!Told(c, answer)
  PROVE  Only(c, IF answer THEN asks[c].what ELSE Nil, "told", answer, TRUE)
<1> DEFINE w == IF answer THEN asks[c].what ELSE Nil
           r == [what |-> w, at |-> "told", told |-> answer, same |-> TRUE]
<1>1. asks \in [Callers -> AskType] BY DEF Host!TypeOK, AskType
<1>2. asks' = [asks EXCEPT ![c] = r] BY DEF Host!Told
<1>3. w \in Host!Questions \cup {Nil} BY <1>1 DEF AskType
<1> HIDE DEF w
<1>4. r \in AskType BY <1>3 DEF AskType, Host!Places
<1>5. r.what = w /\ r.at = "told" /\ r.told = answer /\ r.same = TRUE OBVIOUS
<1> HIDE DEF r
<1>6. asks' \in [Callers -> AskType] /\ asks'[c] = r /\ \A d \in Callers : d # c => asks'[d] = asks[d]
  BY <1>1, <1>2, <1>4
<1> QED BY <1>5, <1>6, Zenon DEF Only, w

LEMMA MovesOnly ==
  ASSUME Host!TypeOK, NEW c \in Callers, NEW spot \in Host!Places, Host!To(c, spot)
  PROVE  Only(c, asks[c].what, spot, asks[c].told, asks[c].same)
<1> DEFINE r == [asks[c] EXCEPT !.at = spot]
<1>1. asks \in [Callers -> AskType] BY DEF Host!TypeOK, AskType
<1>2. asks' = [asks EXCEPT ![c] = r] BY DEF Host!To
<1>4. r \in AskType BY <1>1 DEF AskType
<1>5. r.what = asks[c].what /\ r.at = spot /\ r.told = asks[c].told /\ r.same = asks[c].same
  BY <1>1 DEF AskType
<1> HIDE DEF r
<1>6. asks' \in [Callers -> AskType] /\ asks'[c] = r /\ \A d \in Callers : d # c => asks'[d] = asks[d]
  BY <1>1, <1>2, <1>4
<1> QED BY <1>5, <1>6, Zenon DEF Only

\* A caller whose question is kept: the same, with what asks' says of it.
LEMMA AsksOnly ==
  ASSUME Host!TypeOK, NEW c \in Callers, NEW what \in Host!Questions, NEW spot \in Host!Places,
         asks' = [asks EXCEPT ![c].what = what, ![c].at = spot]
  PROVE  Only(c, what, spot, asks[c].told, asks[c].same)
<1> DEFINE q == [asks[c] EXCEPT !.what = what]  r == [q EXCEPT !.at = spot]
<1>1. asks \in [Callers -> AskType] BY DEF Host!TypeOK, AskType
<1>3. q \in AskType /\ q.what = what /\ q.told = asks[c].told /\ q.same = asks[c].same
  BY <1>1 DEF AskType
<1>2. asks' = [asks EXCEPT ![c] = r] BY <1>1
<1> HIDE DEF q
<1>4. r \in AskType BY <1>3 DEF AskType
<1>5. r.what = what /\ r.at = spot /\ r.told = asks[c].told /\ r.same = asks[c].same
  BY <1>3 DEF AskType
<1> HIDE DEF r
<1>6. asks' \in [Callers -> AskType] /\ asks'[c] = r /\ \A d \in Callers : d # c => asks'[d] = asks[d]
  BY <1>1, <1>2, <1>4
<1> QED BY <1>5, <1>6, Zenon DEF Only

AsksOf(c) ==
  asks' \in [Callers -> AskType] /\ \A d \in Callers : d # c => asks'[d] = asks[d]
GatesOf(c) ==
  /\ verification' \in [Callers -> {Nil, "running", "stopping", "true", "false"}]
  /\ flight' \in Callers \cup {Nil}
  /\ \A d \in Callers : d # c => verification'[d] = verification[d]
  /\ refusing => \A d \in Callers : Host!Verifying(d)' => Host!Verifying(d)
  /\ FlightInv'
JobsOf(c) == jobs' \subseteq jobs \/ (~sealed /\ jobs' = jobs \cup {c})
ThreadsOf ==
  /\ guarded' \in [Host!IO -> SUBSET (Callers \cup Host!Closers)]
  /\ \A io \in shut : guarded'[io] \subseteq guarded[io]
Rest == UNCHANGED <<built, closer, cut, sdk, cuts, refusing, sealed, shut, failing, bindings>>

LEMMA Still ==
  ASSUME HostInv
  PROVE  /\ UNCHANGED <<verification, flight>> => \A c \in Callers : GatesOf(c)
         /\ UNCHANGED jobs => \A c \in Callers : JobsOf(c)
         /\ UNCHANGED guarded => ThreadsOf
         /\ UNCHANGED asks => \A c \in Callers : AsksOf(c)
<1>1. ASSUME UNCHANGED <<verification, flight>>, NEW c \in Callers PROVE GatesOf(c)
  BY <1>1 DEF GatesOf, FlightInv, Host!Verifying, HostInv, Host!TypeOK
<1>2. UNCHANGED jobs => \A c \in Callers : JobsOf(c) BY DEF JobsOf
<1>3. UNCHANGED guarded => ThreadsOf BY DEF ThreadsOf, HostInv, Host!TypeOK
<1>4. UNCHANGED asks => \A c \in Callers : AsksOf(c)
  BY DEF AsksOf, HostInv, Host!TypeOK, AskType
<1> QED BY <1>1, <1>2, <1>3, <1>4

LEMMA TypesKept ==
  ASSUME Host!TypeOK, NEW c \in Callers, AsksOf(c), GatesOf(c), JobsOf(c), ThreadsOf,
         UNCHANGED <<built, closer, cut, sdk, cuts, refusing, sealed, shut>>,
         failing' \in BOOLEAN, bindings' \in BOOLEAN
  PROVE  Host!TypeOK'
<1>1. asks' \in [Callers -> [what : Host!Questions \cup {Nil}, at : Host!Places,
                            told : BOOLEAN, same : BOOLEAN]]
  BY DEF AsksOf, AskType
<1>2. /\ verification' \in [Callers -> {Nil, "running", "stopping", "true", "false"}]
      /\ flight' \in Callers \cup {Nil} /\ jobs' \subseteq Callers
      /\ guarded' \in [Host!IO -> SUBSET (Callers \cup Host!Closers)]
  BY DEF GatesOf, JobsOf, ThreadsOf, Host!TypeOK
<1>3. /\ built' \in Host!Prefixes /\ refusing' \in BOOLEAN /\ sealed' \in BOOLEAN
      /\ shut' \subseteq Host!IO
      /\ closer' \in [Host!Closers -> Host!Stages] /\ cut' \in [Host!Closers -> BOOLEAN]
      /\ sdk' \in 0..1 /\ cuts' \in 0..MaxCuts
  BY DEF Host!TypeOK
<1> QED BY <1>1, <1>2, <1>3 DEF Host!TypeOK

LEMMA CallerKeeps ==
  ASSUME HostInv, NEW c \in Callers, built = Host!Resources, Rest,
         AsksOf(c), GatesOf(c), JobsOf(c), ThreadsOf, Reads(c)', Granted(c)'
  PROVE  HostInv'
<1>1. Host!TypeOK'
  <2>1. failing' \in BOOLEAN /\ bindings' \in BOOLEAN
    BY DEF Rest, HostInv, Host!TypeOK
  <2>2. UNCHANGED <<built, closer, cut, sdk, cuts, refusing, sealed, shut>> BY DEF Rest
  <2> QED BY <2>1, <2>2, TypesKept DEF HostInv
<1>2. Quiets
  BY DEF Quiets, Rest, GatesOf, JobsOf, ThreadsOf
<1>3. StageInv' /\ EnteredInv' /\ DrainInv'
  BY <1>2, QuietStep DEF HostInv
<1>4. IdleInv' BY DEF IdleInv, Host!Resources, Rest
<1>5. \A d \in Callers : Reads(d)' /\ Granted(d)'
  BY DEF HostInv, CallersInv, Reads, Granted, AsksOf, GatesOf
<1> QED BY <1>1, <1>3, <1>4, <1>5 DEF HostInv, CallersInv, GatesOf

\* A caller is told something, or moves on.
LEMMA IsTold ==
  ASSUME HostInv, NEW c \in Callers, NEW answer \in BOOLEAN, Host!Told(c, answer),
         answer => (asks[c].what \in {"work", "probe"} => verification'[c] = "true")
  PROVE  AsksOf(c) /\ Reads(c)' /\ Granted(c)'
<1>1. Only(c, IF answer THEN asks[c].what ELSE Nil, "told", answer, TRUE)
  BY TellsOnly DEF HostInv
<1>2. AsksOf(c) BY <1>1 DEF Only, AsksOf
<1>3. asks'[c].at = "told" BY <1>1 DEF Only
<1>4. Reads(c)' BY <1>3 DEF Reads
<1>5. asks'[c].told = answer /\ (answer => asks'[c].what = asks[c].what)
  BY <1>1, Zenon DEF Only
<1>6. Granted(c)'
  <2>1. "told" \notin Host!Work \cup {"working"} BY DEF Host!Work
  <2> QED BY <1>3, <1>5, <2>1 DEF Granted
<1> QED BY <1>2, <1>4, <1>6

LEMMA MovesAlong ==
  ASSUME HostInv, NEW c \in Callers, NEW spot \in Host!Places \ {"told"}, Host!To(c, spot),
         asks[c].at # "told",
         spot \in Host!Work \cup {"working"} => verification'[c] = "true",
         spot \in {"reading", "searching", "reading again"} => asks[c].what \notin {"work", "probe"}
  PROVE  AsksOf(c) /\ Reads(c)' /\ Granted(c)'
<1>1. Only(c, asks[c].what, spot, asks[c].told, asks[c].same)
  BY MovesOnly DEF HostInv
<1>2. AsksOf(c) BY <1>1 DEF Only, AsksOf
<1>3. ~asks[c].told BY DEF HostInv, CallersInv, Reads
<1>4. asks'[c].told = asks[c].told /\ asks'[c].at = spot /\ asks'[c].what = asks[c].what
  BY <1>1 DEF Only
<1>5. ~asks'[c].told BY <1>3, <1>4, Zenon
<1> QED BY <1>2, <1>4, <1>5 DEF Reads, Granted

LEMMA WholeHost ==
  ASSUME HostInv, NEW c \in Callers,
         \/ asks[c].at # "new" \/ Host!Verifying(c) \/ c \in jobs
         \/ \E io \in Host!IO : c \in guarded[io]
  PROVE  built = Host!Resources
BY DEF HostInv, IdleInv, Host!IO

LEMMA HostAskProvider ==
  ASSUME HostConstants, HostInv, NEW c \in Callers, NEW what \in {"work", "probe"},
         Host!AskProvider(c, what)
  PROVE  HostInv'
<1>1. asks[c].at = "new" /\ built = Host!Resources /\ Rest /\ UNCHANGED <<jobs, guarded>>
  BY DEF Host!AskProvider, Rest, Host!work, Host!threads, Host!world, Host!closing
<1>2. JobsOf(c) /\ ThreadsOf BY <1>1, Still
<1>3. CASE Host!Refuses
  <2>1. Host!Told(c, FALSE) /\ UNCHANGED <<verification, flight>>
    BY <1>3 DEF Host!AskProvider
  <2>2. GatesOf(c) BY <2>1, Still
  <2>3. FALSE \in BOOLEAN OBVIOUS
  <2>4. AsksOf(c) /\ Reads(c)' /\ Granted(c)' BY <2>1, <2>3, IsTold
  <2> QED BY <1>1, <1>2, <2>2, <2>4, CallerKeeps
<1>4. CASE ~Host!Refuses
  <2>1. /\ verification' = [verification EXCEPT ![c] = "running"] /\ flight' = c
        /\ asks' = [asks EXCEPT ![c].what = what, ![c].at = "verifying"]
    BY <1>4 DEF Host!AskProvider
  <2>2. \A d \in Callers : ~Host!Verifying(d)
    BY <1>4 DEF Host!Refuses, HostInv, FlightInv
  <2>3. \A d \in Callers : d # c => verification'[d] = verification[d] /\ ~Host!Verifying(d)'
    BY <2>1, <2>2 DEF Host!Verifying
  <2>4. ~refusing BY <1>4 DEF Host!Refuses
  <2>5. GatesOf(c)
    BY <2>1, <2>3, <2>4 DEF GatesOf, FlightInv, HostInv, Host!TypeOK
  <2>6. what \in Host!Questions /\ "verifying" \in Host!Places
    BY DEF Host!Questions, Host!Places
  <2>7. Only(c, what, "verifying", asks[c].told, asks[c].same)
    BY <2>1, <2>6, AsksOnly DEF HostInv
  <2>8. ~asks[c].told BY <1>1 DEF HostInv, CallersInv, Reads
  <2>9. asks'[c].told = asks[c].told /\ asks'[c].at = "verifying" BY <2>7 DEF Only
  <2>10. ~asks'[c].told BY <2>8, <2>9, Zenon
  <2>11. Reads(c)' /\ Granted(c)' BY <2>9, <2>10 DEF Reads, Granted, Host!Work
  <2>12. AsksOf(c) BY <2>7 DEF Only, AsksOf
  <2> QED BY <1>1, <1>2, <2>5, <2>11, <2>12, CallerKeeps
<1> QED BY <1>3, <1>4

LEMMA HostVerifierEnds ==
  ASSUME HostConstants, HostInv, NEW c \in Callers, Host!VerifierEnds(c)
  PROVE  HostInv'
<1>1. Host!Verifying(c) /\ Rest /\ UNCHANGED <<jobs, guarded, asks, flight>>
  BY DEF Host!VerifierEnds, Rest, Host!work, Host!threads, Host!world, Host!closing
<1>2. built = Host!Resources BY <1>1, WholeHost
<1>3. JobsOf(c) /\ ThreadsOf /\ AsksOf(c) BY <1>1, Still
<1>4. PICK outcome \in {"true", "false"} : verification' = [verification EXCEPT ![c] = outcome]
  BY DEF Host!VerifierEnds
<1>5. \A d \in Callers : d # c => verification'[d] = verification[d]
  BY <1>4
<1>6. verification'[c] = outcome BY <1>4 DEF HostInv, Host!TypeOK
<1>7. \A d \in Callers : Host!Verifying(d)' => Host!Verifying(d)
  BY <1>5, <1>6 DEF Host!Verifying
<1>8. GatesOf(c) BY <1>1, <1>4, <1>5, <1>7 DEF GatesOf, FlightInv, HostInv, Host!TypeOK
<1>9. Reads(c)' BY <1>1 DEF HostInv, CallersInv, Reads
<1>10. Granted(c)'
  <2>1. verification[c] # "true" BY <1>1 DEF Host!Verifying
  <2> QED BY <1>1, <2>1 DEF HostInv, CallersInv, Granted
<1> QED BY <1>1, <1>2, <1>3, <1>8, <1>9, <1>10, CallerKeeps

LEMMA HostGivesUp ==
  ASSUME HostConstants, HostInv, NEW c \in Callers, Host!GivesUp(c)
  PROVE  HostInv'
<1>1. /\ Host!Verifying(c) /\ Rest /\ UNCHANGED <<jobs, guarded, flight>>
      /\ verification' = [verification EXCEPT ![c] = "stopping"] /\ Host!Told(c, FALSE)
  BY DEF Host!GivesUp, Host!Stopped, Rest, Host!work, Host!threads, Host!world, Host!closing
<1>2. built = Host!Resources BY <1>1, WholeHost
<1>3. JobsOf(c) /\ ThreadsOf BY <1>1, Still
<1>4. \A d \in Callers : d # c => verification'[d] = verification[d] BY <1>1
<1>5. \A d \in Callers : Host!Verifying(d)' => Host!Verifying(d)
  BY <1>1, <1>4 DEF Host!Verifying
<1>6. GatesOf(c) BY <1>1, <1>4, <1>5 DEF GatesOf, FlightInv, HostInv, Host!TypeOK
<1>7. FALSE \in BOOLEAN OBVIOUS
<1>8. AsksOf(c) /\ Reads(c)' /\ Granted(c)' BY <1>1, <1>7, IsTold
<1> QED BY <1>1, <1>2, <1>3, <1>6, <1>8, CallerKeeps

\* A job begins, or its caller is refused.
LEMMA HostRuns ==
  ASSUME HostInv, NEW c \in Callers, NEW duty \in Host!Work, Host!Runs(c, duty),
         asks[c].at # "told", verification'[c] = "true"
  PROVE  AsksOf(c) /\ Reads(c)' /\ Granted(c)' /\ JobsOf(c)
<1>1. CASE sealed
  <2>1. Host!Told(c, FALSE) /\ UNCHANGED jobs BY <1>1 DEF Host!Runs
  <2>2. FALSE \in BOOLEAN OBVIOUS
  <2> QED BY <2>1, <2>2, IsTold, Still
<1>2. CASE ~sealed
  <2>1. Host!To(c, duty) /\ jobs' = jobs \cup {c} BY <1>2 DEF Host!Runs
  <2>2. duty \in Host!Places \ {"told"} /\ duty \notin {"reading", "searching", "reading again"}
    BY DEF Host!Work, Host!Places
  <2>3. AsksOf(c) /\ Reads(c)' /\ Granted(c)' BY <2>1, <2>2, MovesAlong
  <2> QED BY <1>2, <2>1, <2>3 DEF JobsOf
<1> QED BY <1>1, <1>2

LEMMA HostVerified ==
  ASSUME HostConstants, HostInv, NEW c \in Callers, Host!Verified(c)
  PROVE  HostInv'
<1> DEFINE ready == verification[c] = "true" /\ ~refusing
<1>1. /\ asks[c].at = "verifying" /\ Rest /\ UNCHANGED <<guarded, verification, flight>>
      /\ IF ready /\ asks[c].what = "work" THEN Host!Runs(c, "checking")
         ELSE Host!Told(c, ready) /\ UNCHANGED jobs
  BY DEF Host!Verified, Host!gate, Rest, Host!work, Host!threads, Host!world, Host!closing
<1>2. built = Host!Resources BY <1>1, WholeHost
<1>3. GatesOf(c) /\ ThreadsOf BY <1>1, Still
<1>4. CASE ready /\ asks[c].what = "work"
  <2>1. "checking" \in Host!Work BY DEF Host!Work
  <2>2. AsksOf(c) /\ Reads(c)' /\ Granted(c)' /\ JobsOf(c) BY <1>1, <1>4, <2>1, HostRuns
  <2> QED BY <1>1, <1>2, <1>3, <2>2, CallerKeeps
<1>5. CASE ~(ready /\ asks[c].what = "work")
  <2>1. ready \in BOOLEAN OBVIOUS
  <2>2. Host!Told(c, ready) /\ UNCHANGED jobs BY <1>1, <1>5
  <2>3. ready => verification'[c] = "true" BY <1>1
  <2> HIDE DEF ready
  <2>4. AsksOf(c) /\ Reads(c)' /\ Granted(c)' BY <2>1, <2>2, <2>3, IsTold
  <2>5. JobsOf(c) BY <2>2, Still
  <2> QED BY <1>1, <1>2, <1>3, <2>4, <2>5, CallerKeeps
<1> QED BY <1>4, <1>5

LEMMA HostSubmits ==
  ASSUME HostInv, NEW c \in Callers, NEW io \in Host!IO, Host!Accepts(io), Host!Submits(io, c)
  PROVE  ThreadsOf
<1>1. io \notin shut /\ guarded' = [guarded EXCEPT ![io] = guarded[io] \cup {c}]
  BY DEF Host!Accepts, Host!Submits
<1>2. guarded \in [Host!IO -> SUBSET (Callers \cup Host!Closers)] /\ shut \subseteq Host!IO
  BY DEF HostInv, Host!TypeOK
<1>3. \A i \in shut : guarded'[i] \subseteq guarded[i] BY <1>1, <1>2
<1>4. guarded' \in [Host!IO -> SUBSET (Callers \cup Host!Closers)] BY <1>1, <1>2
<1> QED BY <1>3, <1>4 DEF ThreadsOf

LEMMA HostJobCalls ==
  ASSUME HostConstants, HostInv, NEW c \in Callers, Host!JobCalls(c)
  PROVE  HostInv'
<1>1. c \in jobs /\ Rest /\ UNCHANGED <<verification, flight>>
  BY DEF Host!JobCalls, Host!gate, Host!Submits, Rest, Host!threads, Host!world, Host!closing
<1>2. built = Host!Resources BY <1>1, WholeHost
<1>3. GatesOf(c) BY <1>1, Still
<1>4. CASE Host!Accepts("work") /\ Host!Submits("work", c) /\ UNCHANGED <<asks, jobs>>
  <2>1. ThreadsOf BY <1>4, HostSubmits DEF Host!IO
  <2>2. AsksOf(c) /\ JobsOf(c) BY <1>4, Still
  <2>3. Reads(c)' /\ Granted(c)'
    BY <1>1, <1>4 DEF HostInv, CallersInv, Reads, Granted
  <2> QED BY <1>1, <1>2, <1>3, <2>1, <2>2, <2>3, CallerKeeps
<1>5. CASE Host!Told(c, FALSE) /\ jobs' = jobs \ {c} /\ UNCHANGED guarded
  <2>1. FALSE \in BOOLEAN OBVIOUS
  <2>2. AsksOf(c) /\ Reads(c)' /\ Granted(c)' BY <1>5, <2>1, IsTold
  <2>3. ThreadsOf /\ JobsOf(c) BY <1>5, Still DEF JobsOf
  <2> QED BY <1>1, <1>2, <1>3, <2>2, <2>3, CallerKeeps
<1> QED BY <1>4, <1>5 DEF Host!JobCalls, Host!threads

LEMMA HostAskThread ==
  ASSUME HostConstants, HostInv, NEW c \in Callers, NEW what \in {"access", "local", "storefront"},
         Host!AskThread(c, what)
  PROVE  HostInv'
<1> DEFINE io == IF what = "access" THEN "admission" ELSE "checks"
<1>1. /\ asks[c].at = "new" /\ built = Host!Resources /\ Rest
      /\ UNCHANGED <<verification, flight, jobs>>
  BY DEF Host!AskThread, Host!gate, Host!Submits, Rest, Host!work, Host!threads, Host!world,
         Host!closing
<1>3. GatesOf(c) /\ JobsOf(c) BY <1>1, Still
<1>4. CASE /\ Host!Accepts(io) /\ Host!Submits(io, c)
           /\ asks' = [asks EXCEPT ![c].what = what, ![c].at = "reading"]
  <2>1. io \in Host!IO BY DEF Host!IO
  <2>2. ThreadsOf
    <3> HIDE DEF io
    <3> QED BY <1>4, <2>1, HostSubmits
  <2>3. what \in Host!Questions /\ "reading" \in Host!Places
    BY DEF Host!Questions, Host!Places
  <2>4. Only(c, what, "reading", asks[c].told, asks[c].same)
    BY <1>4, <2>3, AsksOnly DEF HostInv
  <2>5. ~asks[c].told BY <1>1 DEF HostInv, CallersInv, Reads
  <2>6. /\ asks'[c].told = asks[c].told /\ asks'[c].at = "reading" /\ asks'[c].what = what
    BY <2>4 DEF Only
  <2>7. ~asks'[c].told BY <2>5, <2>6, Zenon
  <2>8. Reads(c)' /\ Granted(c)' BY <2>6, <2>7 DEF Reads, Granted, Host!Work
  <2>9. AsksOf(c) BY <2>4 DEF Only, AsksOf
  <2> QED BY <1>1, <1>3, <2>2, <2>8, <2>9, CallerKeeps
<1>5. CASE Host!Told(c, FALSE) /\ UNCHANGED guarded
  <2>1. FALSE \in BOOLEAN OBVIOUS
  <2>2. AsksOf(c) /\ Reads(c)' /\ Granted(c)' BY <1>5, <2>1, IsTold
  <2>3. ThreadsOf BY <1>5, Still
  <2> QED BY <1>1, <1>3, <2>2, <2>3, CallerKeeps
<1> QED BY <1>4, <1>5 DEF Host!AskThread, Host!threads

LEMMA HostReturns ==
  ASSUME HostInv, NEW c \in Callers, Host!Returns(c), UNCHANGED verification
  PROVE  AsksOf(c) /\ Reads(c)' /\ Granted(c)' /\ JobsOf(c)
<1> DEFINE at == asks[c].at
<1>0. /\ FALSE \in BOOLEAN /\ TRUE \in BOOLEAN /\ Host!Bindings \in BOOLEAN
      /\ jobs' = jobs \ {c} => JobsOf(c)
  <2>1. Host!Bindings \in BOOLEAN BY DEF Host!Bindings
  <2> QED BY <2>1 DEF JobsOf
<1>1. Granted(c) /\ Reads(c) BY DEF HostInv, CallersInv
<1>2. CASE at = "checking"
  <2>1. verification'[c] = "true" BY <1>1, <1>2 DEF Granted, Host!Work
  <2>2. CASE failing \/ refusing
    <3>1. Host!Told(c, FALSE) /\ jobs' = jobs \ {c} BY <1>2, <2>2 DEF Host!Returns
    <3> QED BY <1>0, <3>1, IsTold
  <2>3. CASE ~(failing \/ refusing)
    <3>1. Host!Runs(c, "beginning") BY <1>2, <2>3 DEF Host!Returns
    <3> QED BY <1>2, <2>1, <3>1, HostRuns DEF Host!Work
  <2> QED BY <2>2, <2>3
<1>3. CASE at = "beginning"
  <2>1. Host!To(c, "working") /\ jobs' = jobs \ {c} BY <1>3 DEF Host!Returns
  <2>2. verification'[c] = "true" BY <1>1, <1>3 DEF Granted, Host!Work
  <2>3. "working" \in Host!Places \ {"told"} BY DEF Host!Places
  <2>4. AsksOf(c) /\ Reads(c)' /\ Granted(c)' BY <1>3, <2>1, <2>2, <2>3, MovesAlong
  <2> QED BY <1>0, <2>1, <2>4
<1>4. CASE at = "finishing"
  <2>1. Host!Told(c, TRUE) /\ jobs' = jobs \ {c} BY <1>4 DEF Host!Returns
  <2>2. verification'[c] = "true" BY <1>1, <1>4 DEF Granted, Host!Work
  <2> QED BY <1>0, <2>1, <2>2, IsTold
<1>5. CASE at = "reading"
  <2>1. asks[c].what \notin {"work", "probe"} /\ UNCHANGED jobs
    BY <1>1, <1>5 DEF Reads, Host!Returns
  <2>2. JobsOf(c) BY <2>1, Still
  <2>3. CASE asks[c].what = "storefront"
    <3>1. Host!To(c, "searching") BY <1>5, <2>3 DEF Host!Returns
    <3>2. "searching" \in Host!Places \ {"told"} /\ "searching" \notin Host!Work \cup {"working"}
      BY DEF Host!Places, Host!Work
    <3> QED BY <1>5, <2>1, <2>2, <3>1, <3>2, MovesAlong
  <2>4. CASE asks[c].what # "storefront"
    <3> DEFINE answer == asks[c].what = "local" => Host!Bindings
    <3>1. Host!Told(c, answer) BY <1>5, <2>4 DEF Host!Returns
    <3>2. answer \in BOOLEAN OBVIOUS
    <3> HIDE DEF answer
    <3> QED BY <2>1, <2>2, <3>1, <3>2, IsTold
  <2> QED BY <2>3, <2>4
<1>6. CASE at = "reading again"
  <2> DEFINE answer == Host!Bindings /\ asks[c].same
  <2>1. asks[c].what \notin {"work", "probe"} BY <1>1, <1>6 DEF Reads
  <2>2. Host!Told(c, answer) /\ UNCHANGED jobs BY <1>6 DEF Host!Returns
  <2>3. answer \in BOOLEAN OBVIOUS
  <2> HIDE DEF answer
  <2>4. JobsOf(c) BY <2>2, Still
  <2> QED BY <2>1, <2>2, <2>3, <2>4, IsTold
<1>7. CASE at \notin {"checking", "beginning", "finishing", "reading", "reading again"}
  <2>1. UNCHANGED <<asks, jobs>> BY <1>7 DEF Host!Returns
  <2>2. AsksOf(c) /\ JobsOf(c) BY <2>1, Still
  <2> QED BY <1>1, <2>1, <2>2 DEF Reads, Granted
<1> QED BY <1>2, <1>3, <1>4, <1>5, <1>6, <1>7

LEMMA HostFound ==
  ASSUME HostConstants, HostInv, NEW c \in Callers, Host!Found(c)
  PROVE  HostInv'
<1>1. /\ asks[c].at = "searching" /\ Rest /\ UNCHANGED <<verification, flight, jobs>>
  BY DEF Host!Found, Host!gate, Host!Submits, Rest, Host!work, Host!threads, Host!world,
         Host!closing
<1>2. built = Host!Resources BY <1>1, WholeHost
<1>3. GatesOf(c) /\ JobsOf(c) BY <1>1, Still
<1>4. CASE Host!Accepts("checks") /\ Host!Submits("checks", c) /\ Host!To(c, "reading again")
  <2>1. ThreadsOf BY <1>4, HostSubmits DEF Host!IO
  <2>2. /\ "reading again" \in Host!Places \ {"told"}
        /\ "reading again" \notin Host!Work \cup {"working"}
    BY DEF Host!Places, Host!Work
  <2>3. asks[c].what \notin {"work", "probe"} BY <1>1 DEF HostInv, CallersInv, Reads
  <2>4. AsksOf(c) /\ Reads(c)' /\ Granted(c)' BY <1>1, <1>4, <2>2, <2>3, MovesAlong
  <2> QED BY <1>1, <1>2, <1>3, <2>1, <2>4, CallerKeeps
<1>5. CASE Host!Told(c, FALSE) /\ UNCHANGED guarded
  <2>1. FALSE \in BOOLEAN OBVIOUS
  <2>2. AsksOf(c) /\ Reads(c)' /\ Granted(c)' BY <1>5, <2>1, IsTold
  <2>3. ThreadsOf BY <1>5, Still
  <2> QED BY <1>1, <1>2, <1>3, <2>2, <2>3, CallerKeeps
<1> QED BY <1>4, <1>5 DEF Host!Found, Host!threads

LEMMA HostFinish ==
  ASSUME HostConstants, HostInv, NEW c \in Callers, Host!Finish(c)
  PROVE  HostInv'
<1>1. /\ asks[c].at = "working" /\ Host!Runs(c, "finishing") /\ Rest
      /\ UNCHANGED <<verification, flight, guarded>>
  BY DEF Host!Finish, Host!gate, Rest, Host!threads, Host!world, Host!closing
<1>2. built = Host!Resources BY <1>1, WholeHost
<1>3. GatesOf(c) /\ ThreadsOf BY <1>1, Still
<1>4. verification'[c] = "true" BY <1>1 DEF HostInv, CallersInv, Granted
<1>5. "finishing" \in Host!Work BY DEF Host!Work
<1>6. AsksOf(c) /\ Reads(c)' /\ Granted(c)' /\ JobsOf(c) BY <1>1, <1>4, <1>5, HostRuns
<1> QED BY <1>1, <1>2, <1>3, <1>6, CallerKeeps

LEMMA HostAbandon ==
  ASSUME HostConstants, HostInv, NEW c \in Callers, Host!Abandon(c)
  PROVE  HostInv'
<1>1. /\ asks[c].at # "new" /\ Host!Told(c, FALSE) /\ Rest
      /\ UNCHANGED <<verification, flight, guarded>> /\ jobs' \subseteq jobs
  BY DEF Host!Abandon, Host!Work, Host!gate, Rest, Host!threads, Host!world, Host!closing
<1>2. built = Host!Resources BY <1>1, WholeHost
<1>3. GatesOf(c) /\ ThreadsOf /\ JobsOf(c) BY <1>1, Still DEF JobsOf
<1>4. FALSE \in BOOLEAN OBVIOUS
<1>5. AsksOf(c) /\ Reads(c)' /\ Granted(c)' BY <1>1, <1>4, IsTold
<1> QED BY <1>1, <1>2, <1>3, <1>5, CallerKeeps

LEMMA HostJobEnds ==
  ASSUME HostConstants, HostInv, NEW c \in Callers, Host!JobEnds(c)
  PROVE  HostInv'
<1>1. /\ c \in jobs /\ Rest /\ UNCHANGED <<verification, flight, guarded, asks>>
      /\ jobs' = jobs \ {c}
  BY DEF Host!JobEnds, Host!gate, Rest, Host!threads, Host!world, Host!closing
<1>2. built = Host!Resources BY <1>1, WholeHost
<1>3. GatesOf(c) /\ ThreadsOf /\ JobsOf(c) /\ AsksOf(c) BY <1>1, Still DEF JobsOf
<1>4. Reads(c)' /\ Granted(c)' BY <1>1 DEF HostInv, CallersInv, Reads, Granted
<1> QED BY <1>1, <1>2, <1>3, <1>4, CallerKeeps

\* A step of the world: a thread of a closer ends, the authority is lost, the
\* bindings change, or the catalogue does.
LEMMA WorldLeaves ==
  ASSUME HostInv,
         UNCHANGED <<built, verification, flight, refusing, jobs, sealed, shut, closer, cut, sdk, cuts>>,
         failing' \in BOOLEAN, bindings' \in BOOLEAN,
         guarded' \in [Host!IO -> SUBSET (Callers \cup Host!Closers)],
         \A io \in Host!IO : guarded'[io] \subseteq guarded[io],
         asks' \in [Callers -> AskType],
         \A c \in Callers : /\ asks'[c].what = asks[c].what /\ asks'[c].at = asks[c].at
                            /\ asks'[c].told = asks[c].told
  PROVE  HostInv'
<1>1. Host!TypeOK'
  <2>1. asks' \in [Callers -> [what : Host!Questions \cup {Nil}, at : Host!Places,
                              told : BOOLEAN, same : BOOLEAN]]
    BY DEF AskType
  <2> QED BY <2>1 DEF HostInv, Host!TypeOK
<1>2. Quiets
  <2>1. shut \subseteq Host!IO BY DEF HostInv, Host!TypeOK
  <2> QED BY <2>1 DEF Quiets, Host!Verifying
<1>3. StageInv' /\ EnteredInv' /\ DrainInv' BY <1>2, QuietStep DEF HostInv
<1>4. \A c \in Callers : Host!Verifying(c)' <=> Host!Verifying(c) BY DEF Host!Verifying
<1>5. IdleInv' /\ FlightInv'
  <2>1. IdleInv /\ FlightInv BY DEF HostInv
  <2> QED BY <1>4, <2>1 DEF IdleInv, FlightInv, Host!IO, Host!Resources
<1>6. \A c \in Callers : Reads(c)' /\ Granted(c)'
  <2> TAKE c \in Callers
  <2>1. /\ asks'[c].what = asks[c].what /\ asks'[c].at = asks[c].at
        /\ asks'[c].told = asks[c].told /\ verification' = verification /\ Reads(c) /\ Granted(c)
    BY DEF HostInv, CallersInv
  <2>2. Reads(c)' BY <2>1 DEF Reads
  <2>3. Granted(c)' BY <2>1 DEF Granted
  <2> QED BY <2>2, <2>3
<1> QED BY <1>1, <1>3, <1>5, <1>6 DEF HostInv, CallersInv

LEMMA HostEnds ==
  ASSUME HostConstants, HostInv, NEW io \in Host!IO, NEW x \in Callers \cup Host!Closers,
         Host!Ends(io, x)
  PROVE  HostInv'
<1>1. /\ x \in guarded[io] /\ guarded' = [guarded EXCEPT ![io] = guarded[io] \ {x}]
      /\ Rest /\ UNCHANGED <<verification, flight>>
  BY DEF Host!Ends, Host!gate, Rest, Host!world, Host!closing
<1>2. /\ guarded' \in [Host!IO -> SUBSET (Callers \cup Host!Closers)]
      /\ \A i \in Host!IO : guarded'[i] \subseteq guarded[i]
  BY <1>1 DEF HostInv, Host!TypeOK
<1>3. CASE x \in Host!Closers
  <2>1. UNCHANGED <<asks, jobs>> BY <1>3 DEF Host!Ends
  <2>2. /\ UNCHANGED <<built, verification, flight, refusing, jobs, sealed, shut, closer, cut, sdk, cuts>>
        /\ failing' \in BOOLEAN /\ bindings' \in BOOLEAN /\ asks' \in [Callers -> AskType]
    BY <1>1, <2>1 DEF Rest, HostInv, Host!TypeOK, AskType
  <2> QED BY <1>2, <2>1, <2>2, WorldLeaves
<1>4. CASE x \notin Host!Closers
  <2>1. x \in Callers BY <1>4
  <2>2. built = Host!Resources BY <1>1, <2>1, WholeHost
  <2>3. GatesOf(x) BY <1>1, <2>1, Still
  <2>4. ThreadsOf
    <3>1. shut \subseteq Host!IO BY DEF HostInv, Host!TypeOK
    <3> QED BY <1>2, <3>1 DEF ThreadsOf
  <2>5. AsksOf(x) /\ Reads(x)' /\ Granted(x)' /\ JobsOf(x)
    <3>1. CASE Host!Returns(x) BY <1>1, <2>1, <3>1, HostReturns
    <3>2. CASE UNCHANGED <<asks, jobs>>
      <4>1. AsksOf(x) /\ JobsOf(x) BY <2>1, <3>2, Still
      <4> QED BY <1>1, <2>1, <3>2, <4>1 DEF HostInv, CallersInv, Reads, Granted
    <3>3. CASE Host!Told(x, FALSE) /\ jobs' = jobs \ {x}
      <4>1. FALSE \in BOOLEAN OBVIOUS
      <4>2. JobsOf(x) BY <3>3 DEF JobsOf
      <4> QED BY <2>1, <3>3, <4>1, <4>2, IsTold
    <3> QED BY <1>4, <3>1, <3>2, <3>3 DEF Host!Ends
  <2> QED BY <1>1, <2>1, <2>2, <2>3, <2>4, <2>5, CallerKeeps
<1> QED BY <1>3, <1>4

LEMMA HostWorld ==
  ASSUME HostConstants, HostInv, Host!LoseAuthority \/ Host!Rebind \/ Host!Import
  PROVE  HostInv'
<1>1. UNCHANGED <<built, verification, flight, refusing, jobs, sealed, shut, closer, cut, sdk,
                  cuts, guarded>>
  BY DEF Host!LoseAuthority, Host!Rebind, Host!Import, Host!gate, Host!work, Host!threads,
         Host!world, Host!closing
<1>2. failing' \in BOOLEAN /\ bindings' \in BOOLEAN
  BY DEF Host!LoseAuthority, Host!Rebind, Host!Import, Host!work, Host!world, HostInv,
         Host!TypeOK
<1>3. guarded' \in [Host!IO -> SUBSET (Callers \cup Host!Closers)]
      /\ \A io \in Host!IO : guarded'[io] \subseteq guarded[io]
  BY <1>1 DEF HostInv, Host!TypeOK
<1>4. asks \in [Callers -> AskType] BY DEF HostInv, Host!TypeOK, AskType
<1>5. /\ asks' \in [Callers -> AskType]
      /\ \A c \in Callers : /\ asks'[c].what = asks[c].what /\ asks'[c].at = asks[c].at
                            /\ asks'[c].told = asks[c].told
  <2>1. CASE UNCHANGED asks BY <1>4, <2>1
  <2>2. CASE Host!Import
    <3> DEFINE S(c) == asks[c].same /\ (asks[c].what # "storefront" \/ asks[c].at = "told")
    <3>1. asks' = [c \in Callers |-> [asks[c] EXCEPT !.same = S(c)]]
      BY <1>4, <2>2 DEF Host!Import, AskType
    <3>2. \A c \in Callers : S(c) \in BOOLEAN OBVIOUS
    <3> HIDE DEF S
    <3>3. \A c \in Callers : asks[c] \in AskType /\ asks'[c] = [asks[c] EXCEPT !.same = S(c)]
      BY <1>4, <3>1
    <3>4. asks' \in [Callers -> AskType]
      <4>1. \A c \in Callers : [asks[c] EXCEPT !.same = S(c)] \in AskType
        BY <3>2, <3>3 DEF AskType
      <4> QED BY <3>1, <4>1
    <3>5. \A c \in Callers : /\ asks'[c].what = asks[c].what /\ asks'[c].at = asks[c].at
                             /\ asks'[c].told = asks[c].told
      BY <3>3 DEF AskType
    <3> QED BY <3>4, <3>5
  <2>3. Host!Import \/ UNCHANGED asks
    BY DEF Host!LoseAuthority, Host!Rebind
  <2> QED BY <2>1, <2>2, <2>3
<1> QED BY <1>1, <1>2, <1>3, <1>5, WorldLeaves

-----------------------------------------------------------------------------
\* What a closer does when it enters a stage.
Effect(p) ==
  /\ closer[p] = "checks" => "checks" \in shut
  /\ closer[p] = "provider" => refusing
  /\ closer[p] = "jobs" => sealed
  /\ closer[p] = "work io" => "work" \in shut
  /\ closer[p] = "admission io" => "admission" \in shut
  /\ closer[p] = "sdk" => sdk = 1

\* Nothing is undone, and the drain is created by whoever needs it first.
Onwards(p, point) ==
  /\ shut \subseteq shut' /\ (refusing => refusing') /\ (sealed => sealed')
  /\ (sdk = 1 => sdk' = 1) /\ (sdk' = 1 => sdk = 1 \/ point = "sdk")
  /\ closer'[p] = point
  /\ \A q \in Host!Closers : q # p =>
       \/ closer'[q] = closer[q]
       \/ q = "drain" /\ point = "admission" /\ closer[q] = "idle" /\ closer'[q] = "created"

LEMMA EnterTypes ==
  ASSUME HostInv, NEW p \in Host!Closers, NEW point \in Host!Stages,
         Host!Enters(p, point), p = "drain" => point # "admission",
         UNCHANGED <<flight, asks, jobs, failing, built, bindings>>,
         cut' \in [Host!Closers -> BOOLEAN], cuts' \in 0..MaxCuts
  PROVE  Host!TypeOK' /\ Onwards(p, point) /\ Effect(p)'
<1> DEFINE added == CASE point = "checks" -> {"checks"}
                      [] point = "work io" -> {"work"}
                      [] point = "admission io" -> {"admission"}
                      [] OTHER -> {}
<1>1. added \subseteq Host!IO /\ shut' = shut \cup added
  BY DEF Host!Enters, Host!IO
<1>2. shut' \subseteq Host!IO /\ shut \subseteq shut'
  BY <1>1 DEF HostInv, Host!TypeOK
<1>3. /\ refusing' = (refusing \/ point = "provider") /\ sealed' = (sealed \/ point = "jobs")
      /\ verification' = IF point = "provider" THEN Host!Stopped(flight) ELSE verification
      /\ sdk' = IF point = "sdk" /\ sdk = 0 THEN 1 ELSE sdk
  BY DEF Host!Enters
<1>4. verification' \in [Callers -> {Nil, "running", "stopping", "true", "false"}]
  BY <1>3 DEF Host!Stopped, HostInv, Host!TypeOK
<1>5. sdk' \in 0..1 /\ (sdk = 1 => sdk' = 1) /\ (sdk' = 1 => sdk = 1 \/ point = "sdk")
      /\ (point = "sdk" => sdk' = 1)
  BY <1>3 DEF HostInv, Host!TypeOK
<1>6. guarded' \in [Host!IO -> SUBSET (Callers \cup Host!Closers)]
  <2>1. guarded \in [Host!IO -> SUBSET (Callers \cup Host!Closers)]
    BY DEF HostInv, Host!TypeOK
  <2>2. \/ guarded' = guarded
        \/ guarded' = [guarded EXCEPT !["work"] = guarded["work"] \cup {p}]
    BY DEF Host!Enters
  <2> QED BY <2>1, <2>2
<1>7. /\ closer' \in [Host!Closers -> Host!Stages] /\ closer'[p] = point
      /\ \A q \in Host!Closers : q # p =>
           \/ closer'[q] = closer[q]
           \/ q = "drain" /\ point = "admission" /\ closer[q] = "idle" /\ closer'[q] = "created"
  <2>1. closer \in [Host!Closers -> Host!Stages] /\ "created" \in Host!Stages
    BY DEF HostInv, Host!TypeOK, Host!Stages
  <2>2. CASE point = "admission" /\ closer["drain"] = "idle"
    <3>1. closer' = [closer EXCEPT ![p] = point, !["drain"] = "created"] /\ p # "drain"
      BY <2>2 DEF Host!Enters
    <3> QED BY <2>1, <2>2, <3>1
  <2>3. CASE ~(point = "admission" /\ closer["drain"] = "idle")
    <3>1. closer' = [closer EXCEPT ![p] = point] BY <2>3 DEF Host!Enters
    <3> QED BY <2>1, <3>1
  <2> QED BY <2>2, <2>3
<1>8. Host!TypeOK'
  <2>1. refusing' \in BOOLEAN /\ sealed' \in BOOLEAN BY <1>3
  <2> QED BY <1>2, <1>4, <1>5, <1>6, <1>7, <2>1 DEF HostInv, Host!TypeOK
<1>9. Effect(p)'
  BY <1>1, <1>3, <1>5, <1>7 DEF Effect
<1>10. (refusing => refusing') /\ (sealed => sealed') BY <1>3
<1> QED BY <1>2, <1>5, <1>7, <1>8, <1>9, <1>10 DEF Onwards

LEMMA EnterCallers ==
  ASSUME HostConstants, HostInv, NEW p \in Host!Closers, NEW point \in Host!Stages,
         Host!Enters(p, point), p = "drain" => point # "admission",
         point = "tokens" => "work" \in built, p = "lifespan" => built = Host!Resources,
         UNCHANGED <<flight, asks, jobs, failing, built, bindings>>,
         cut' \in [Host!Closers -> BOOLEAN], cuts' \in 0..MaxCuts
  PROVE  /\ IdleInv' /\ FlightInv' /\ CallersInv'
         /\ \A c \in Callers : Host!Verifying(c)' => Host!Verifying(c)
         /\ \A io \in Host!IO : guarded'[io] = guarded[io] \/ (io = "work" /\ "work" \notin shut)
<1>1. Onwards(p, point) BY EnterTypes
<1>2. /\ verification' = IF point = "provider" THEN Host!Stopped(flight) ELSE verification
      /\ \/ guarded' = guarded
         \/ /\ point = "tokens" /\ Host!Accepts("work")
            /\ guarded' = [guarded EXCEPT !["work"] = guarded["work"] \cup {p}]
  BY DEF Host!Enters
<1>3. \A c \in Callers : \/ verification'[c] = verification[c]
                         \/ Host!Verifying(c) /\ verification'[c] = "stopping"
  BY <1>2 DEF Host!Stopped, HostInv, Host!TypeOK, Host!Verifying
<1>4. \A c \in Callers : Host!Verifying(c)' => Host!Verifying(c)
  BY <1>3 DEF Host!Verifying
<1>5. \A c \in Callers : verification[c] = "true" => verification'[c] = "true"
  BY <1>3 DEF Host!Verifying
<1>6. \A io \in Host!IO : guarded'[io] = guarded[io] \/ (io = "work" /\ "work" \notin shut)
  BY <1>2 DEF HostInv, Host!TypeOK, Host!Accepts
<1>7. FlightInv' BY <1>4 DEF HostInv, FlightInv
<1>8. CallersInv' BY <1>5 DEF HostInv, CallersInv, Reads, Granted
<1>9. guarded'["work"] \cap Callers = guarded["work"] \cap Callers
  BY <1>2 DEF HostInv, Host!TypeOK, HostConstants, Host!IO
<1>10. guarded'["admission"] = guarded["admission"] /\ guarded'["checks"] = guarded["checks"]
  BY <1>6 DEF Host!IO
<1>11. "work" \notin built => guarded'["work"] = guarded["work"] BY <1>2
<1>12. built # Host!Resources => closer'["lifespan"] = closer["lifespan"]
  BY <1>1 DEF Onwards, Host!Closers
<1>13. IdleInv' BY <1>4, <1>9, <1>10, <1>11, <1>12 DEF HostInv, IdleInv, Host!Resources
<1> QED BY <1>4, <1>6, <1>7, <1>8, <1>13

LEMMA EnterCloses ==
  ASSUME HostConstants, HostInv, NEW p \in Host!Closers, NEW point \in Host!Stages,
         Host!Enters(p, point), p = "drain" => point # "admission",
         point = "tokens" => "work" \in built, p = "lifespan" => built = Host!Resources,
         closer[p] # "ended",
         UNCHANGED <<flight, asks, jobs, failing, built, bindings>>,
         cut' \in [Host!Closers -> BOOLEAN], cuts' \in 0..MaxCuts
  PROVE  \A s : Closed(s) => Closed(s)'
<1>1. Onwards(p, point) BY EnterTypes
<1>2. /\ \A c \in Callers : Host!Verifying(c)' => Host!Verifying(c)
      /\ \A io \in Host!IO : guarded'[io] = guarded[io] \/ (io = "work" /\ "work" \notin shut)
  BY EnterCallers
<1> SUFFICES ASSUME NEW s, Closed(s) PROVE Closed(s)'
  OBVIOUS
<1>3. CASE s = "provider" BY <1>1, <1>2, <1>3 DEF Closed, Onwards
<1>4. CASE s = "admission" BY <1>1, <1>4 DEF Closed, Onwards, Host!Closers
<1>5. CASE s \notin {"provider", "admission"}
  BY <1>1, <1>2, <1>5 DEF Closed, Onwards, Host!IO
<1> QED BY <1>3, <1>4, <1>5

\* The order of the stages, without their numbers.
NextTo(s, t) == Host!Position(t) = Host!Position(s) + 1
Before(s, t) == Host!Position(s) < Host!Position(t)

LEMMA NextTos ==
  NextTo("provider", "jobs") /\ NextTo("jobs", "tokens") /\ NextTo("tokens", "work io")
<1> DEFINE n2 == Host!Position("provider")  n3 == Host!Position("jobs")
           n4 == Host!Position("tokens")  n5 == Host!Position("work io")
<1>1. n2 = 2 /\ n3 = 3 /\ n4 = 4 /\ n5 = 5 BY Positions
<1> HIDE DEF n2, n3, n4, n5
<1>2. n3 = n2 + 1 /\ n4 = n3 + 1 /\ n5 = n4 + 1 BY <1>1
<1> QED BY <1>2, Zenon DEF NextTo, n2, n3, n4, n5

LEMMA PlacesApart ==
  \A s, t \in Host!Stages \ {"idle", "created"} :
    /\ Host!Position(s) \in 1..10
    /\ Host!Position(s) = Host!Position(t) => s = t
<1> DEFINE Later == {"checks", "provider", "jobs", "tokens", "work io", "admission",
                     "admission io", "sdk", "service", "ended"}
           name(n) == CASE n = 1 -> "checks" [] n = 2 -> "provider" [] n = 3 -> "jobs"
                        [] n = 4 -> "tokens" [] n = 5 -> "work io" [] n = 6 -> "admission"
                        [] n = 7 -> "admission io" [] n = 8 -> "sdk" [] n = 9 -> "service"
                        [] OTHER -> "ended"
<1>1. Host!Stages \ {"idle", "created"} = Later BY DEF Host!Stages
<1>2. \A s \in Later : Host!Position(s) \in {1, 2, 3, 4, 5, 6, 7, 8, 9, 10} BY Positions
<1>3. \A s \in Later : name(Host!Position(s)) = s
  <2>1. /\ name(1) = "checks" /\ name(2) = "provider" /\ name(3) = "jobs" /\ name(4) = "tokens"
        /\ name(5) = "work io" /\ name(6) = "admission" /\ name(7) = "admission io"
        /\ name(8) = "sdk" /\ name(9) = "service" /\ name(10) = "ended"
    OBVIOUS
  <2> HIDE DEF name
  <2> QED BY <2>1, Positions
<1> HIDE DEF Later, name
<1>4. \A s \in Later : Host!Position(s) \in 1..10 BY <1>2
<1> QED BY <1>1, <1>3, <1>4

LEMMA Befores ==
  /\ \A p : \A s \in Host!Way(p) :
       ~Before(s, "idle") /\ ~Before(s, "created") /\ Before(s, "ended")
  /\ \A s \in Host!Way("drain") : ~Before("sdk", s)
<1>1. \A p : \A s \in Host!Way(p) : Host!Position(s) \in 1..10
  BY WaysAreStages, PlacesApart
<1>2. \A p : \A s \in Host!Way(p) : ~Before(s, "idle") /\ ~Before(s, "created")
  <2> DEFINE z == Host!Position("idle")
  <2>1. z = 0 /\ z = Host!Position("created") BY Positions
  <2> HIDE DEF z
  <2>2. \A p : \A s \in Host!Way(p) : ~(Host!Position(s) < z) BY <1>1, <2>1
  <2> QED BY <2>1, <2>2, Zenon DEF Before, z
<1>3. \A s \in Host!Way("drain") : ~Before("sdk", s)
  <2> DEFINE p2 == Host!Position("provider")  p3 == Host!Position("jobs")
             p4 == Host!Position("tokens")  p5 == Host!Position("work io")
             p7 == Host!Position("admission io")  p8 == Host!Position("sdk")
  <2>1. p2 = 2 /\ p3 = 3 /\ p4 = 4 /\ p5 = 5 /\ p7 = 7 /\ p8 = 8 BY Positions
  <2> HIDE DEF p2, p3, p4, p5, p7, p8
  <2>2. ~(p8 < p2) /\ ~(p8 < p3) /\ ~(p8 < p4) /\ ~(p8 < p5) /\ ~(p8 < p7) /\ ~(p8 < p8)
    BY <2>1
  <2>3. Host!Way("drain") = {"provider", "jobs", "tokens", "work io", "admission io", "sdk"}
    BY DEF Host!Way, Host!Close
  <2> QED BY <2>2, <2>3, Zenon DEF Before, p2, p3, p4, p5, p7, p8
<1>4. \A p : \A s \in Host!Way(p) : Before(s, "ended")
  <2> DEFINE e == "ended"
  <2>1. Host!Position(e) = 10 BY Positions
  <2>2. e = "ended" /\ e \in Host!Stages \ {"idle", "created"} BY DEF Host!Stages
  <2>3. \A p : \A s \in Host!Way(p) : s \in Host!Stages \ {"idle", "created"} /\ s # e
    BY WaysAreStages
  <2> HIDE DEF e
  <2>4. \A p : \A s \in Host!Way(p) : Host!Position(s) < Host!Position(e)
    <3> TAKE p
    <3> TAKE s \in Host!Way(p)
    <3>1. Host!Position(s) \in 1..10 /\ Host!Position(s) # Host!Position(e)
      BY <1>1, <2>2, <2>3, PlacesApart
    <3> QED BY <2>1, <3>1
  <2> QED BY <2>2, <2>4, Zenon DEF Before
<1> QED BY <1>2, <1>3, <1>4

\* The next stage is the first one left.
Follows(p, point) ==
  /\ point \in Host!Way(p) \cup {"ended"}
  /\ point \in Host!Way(p) => Host!Has(point) /\ Host!Position(closer[p]) < Host!Position(point)
  /\ \A s \in Host!Way(p) : Host!Has(s) /\ Host!Position(s) < Host!Position(point) =>
       Host!Position(s) <= Host!Position(closer[p])

LEMMA OnwardFollows ==
  ASSUME Host!TypeOK, NEW p \in Host!Closers
  PROVE  Follows(p, Host!Onward(p))
<1> DEFINE rest == {s \in Host!Way(p) : Host!Has(s) /\ Host!Position(closer[p]) < Host!Position(s)}
           o == Host!Onward(p)
<1>1. Host!Position(closer[p]) \in 0..10 BY PositionTypes DEF Host!TypeOK
<1>2. \A s \in Host!Way(p) : Host!Position(s) \in 1..10
  BY WaysAreStages, PlacesApart
<1>3. CASE rest = {}
  <2>1. o = "ended" BY <1>3 DEF Host!Onward
  <2>2. o \notin Host!Way(p) BY <2>1, WaysAreStages
  <2>3. \A s \in Host!Way(p) : Host!Has(s) => Host!Position(s) <= Host!Position(closer[p])
    BY <1>1, <1>2, <1>3
  <2> HIDE DEF o
  <2> QED BY <2>1, <2>2, <2>3 DEF Follows, o
<1>4. CASE rest # {}
  <2> DEFINE T == {Host!Position(s) : s \in rest}
             least(s) == \A t \in rest : Host!Position(s) <= Host!Position(t)
  <2>1. T \subseteq Nat /\ T # {} BY <1>2, <1>4
  <2>2. PICK x \in T : \A y \in T : ~(<<y, x>> \in OpToRel(<, Nat))
    BY <2>1, NatLessThanWellFounded, WFMin
  <2>3. PICK s \in rest : x = Host!Position(s) OBVIOUS
  <2>4. least(s)
    <3> SUFFICES ASSUME NEW t \in rest PROVE Host!Position(s) <= Host!Position(t)
      OBVIOUS
    <3>1. ~(<<Host!Position(t), x>> \in OpToRel(<, Nat)) BY <2>2
    <3>2. Host!Position(t) \in Nat /\ x \in Nat BY <2>1
    <3>3. ~(Host!Position(t) < x) BY <3>1, <3>2 DEF OpToRel
    <3> QED BY <2>3, <3>2, <3>3
  <2>5. o \in rest /\ least(o) BY <1>4, <2>4 DEF Host!Onward
  <2> HIDE DEF o
  <2>6. \A t \in Host!Way(p) : Host!Has(t) /\ Host!Position(t) < Host!Position(o) =>
          Host!Position(t) <= Host!Position(closer[p])
    BY <1>1, <1>2, <2>5
  <2> QED BY <2>5, <2>6 DEF Follows, o
<1> QED BY <1>3, <1>4

LEMMA AwaitedClosed ==
  ASSUME HostInv, NEW p \in Host!Closers, closer[p] \in Host!Way(p), ~Host!Awaits(p)
  PROVE  Closed(closer[p])
<1>1. /\ closer[p] = "checks" => "checks" \in shut
      /\ closer[p] = "provider" => refusing
      /\ closer[p] = "jobs" => sealed
      /\ closer[p] = "work io" => "work" \in shut
      /\ closer[p] = "admission io" => "admission" \in shut
      /\ closer[p] = "sdk" => sdk = 1
  BY DEF HostInv, EnteredInv
<1>2. CASE closer[p] = "provider"
  <2>1. ~Host!Verifying(flight) BY <1>2 DEF Host!Awaits
  <2>2. \A c \in Callers : ~Host!Verifying(c) BY <2>1 DEF HostInv, FlightInv
  <2> QED BY <1>1, <1>2, <2>2 DEF Closed
<1>3. CASE closer[p] # "provider"
  BY <1>1, <1>3 DEF Closed, Host!Awaits
<1> QED BY <1>2, <1>3

\* A closer enters a stage of its way when all it has passed is closed, or when
\* it was cancelled.
LEMMA CloserKeeps ==
  ASSUME HostConstants, HostInv, NEW p \in Host!Closers, NEW point, Host!Enters(p, point),
         point \in Host!Way(p) \cup {"ended"}, point \in Host!Way(p) => Host!Has(point),
         closer[p] # "ended", p = "drain" => closer[p] # "idle",
         p = "lifespan" => built = Host!Resources,
         UNCHANGED <<flight, asks, jobs, failing, built, bindings>>,
         cut' \in [Host!Closers -> BOOLEAN], cuts' \in 0..MaxCuts,
         \A q \in Host!Closers : q # p => cut'[q] = cut[q],
         ~cut'[p] => \A s \in Host!Way(p) :
           Host!Has(s) /\ Host!Position(s) < Host!Position(point) => Closed(s),
         p = "drain" => /\ cut'[p] => point \in {"jobs", "tokens", "work io"}
                        /\ sdk = 1 => point \in {"sdk", "ended"}
  PROVE  HostInv'
<1>1. point \in Host!Stages BY WaysAreStages DEF Host!Stages
<1>2. p = "drain" => point # "admission" BY WaysAreStages
<1>3. (point = "tokens" => "work" \in built) /\ (point = "admission" => "admission" \in built)
  <2>1. point \in {"tokens", "admission"} => Host!Has(point) OBVIOUS
  <2> QED BY <2>1 DEF Host!Has
<1>4. point = "sdk" => p = "drain" \/ "admission" \notin built
  <2>1. point = "sdk" => point \in Host!Way(p) OBVIOUS
  <2> QED BY <2>1 DEF Host!Way, Host!Close
<1>5. Host!TypeOK' /\ Onwards(p, point) /\ Effect(p)' BY <1>1, <1>2, EnterTypes
<1>6. IdleInv' /\ FlightInv' /\ CallersInv' BY <1>1, <1>2, <1>3, EnterCallers
<1>7. \A s : Closed(s) => Closed(s)' BY <1>1, <1>2, <1>3, EnterCloses
<1>8. \A s : Host!Has(s)' <=> Host!Has(s) BY DEF Host!Has
<1>9. \A q : Host!Way(q)' = Host!Way(q) BY DEF Host!Way
<1>10. closer'[p] = point
       /\ \A q \in Host!Closers : q # p =>
            closer'[q] = closer[q] \/ (q = "drain" /\ point = "admission" /\ closer'[q] = "created")
  BY <1>5 DEF Onwards
<1>11. StageInv'
  <2> SUFFICES ASSUME NEW q \in Host!Closers, ~cut'[q], NEW s \in Host!Way(q), Host!Has(s),
                      Host!Position(s) < Host!Position(closer'[q])
               PROVE  Closed(s)'
    BY <1>8, <1>9 DEF StageInv
  <2>1. CASE q = p BY <1>7, <1>10, <2>1
  <2>2. CASE q # p /\ closer'[q] = closer[q]
    <3>1. ~cut[q] BY <2>2
    <3>2. Closed(s) BY <2>2, <3>1 DEF HostInv, StageInv
    <3> QED BY <1>7, <3>2
  <2>3. CASE q # p /\ closer'[q] = "created"
    <3>1. Before(s, closer'[q]) BY Zenon DEF Before
    <3>2. ~Before(s, "created") BY Befores, Zenon
    <3> QED BY <2>3, <3>1, <3>2, Zenon
  <2> QED BY <1>10, <2>1, <2>2, <2>3
<1>12. EnteredInv'
  <2> SUFFICES ASSUME NEW q \in Host!Closers
               PROVE  /\ closer'[q] \in Host!Way(q) \cup {"idle", "created", "ended"}
                      /\ closer'[q] \in Host!Way(q) => Host!Has(closer'[q])
                      /\ Effect(q)'
    BY <1>8, <1>9 DEF EnteredInv, Effect
  <2>1. CASE q = p BY <1>5, <1>10, <2>1
  <2>2. CASE q # p /\ closer'[q] = closer[q]
    <3>1. Effect(q) BY DEF HostInv, EnteredInv, Effect
    <3>2. Effect(q)' BY <1>5, <2>2, <3>1 DEF Effect, Onwards
    <3> QED BY <2>2, <3>2 DEF HostInv, EnteredInv
  <2>3. CASE q # p /\ closer'[q] = "created"
    <3>1. "created" \notin Host!Way(q) BY WaysAreStages
    <3>2. Effect(q)' BY <2>3 DEF Effect
    <3> QED BY <2>3, <3>1, <3>2
  <2> QED BY <1>10, <2>1, <2>2, <2>3
<1>13. DrainInv'
  <2>0. "drain" \in Host!Closers BY DEF Host!Closers
  <2>1. /\ cut["drain"] => closer["drain"] \in {"jobs", "tokens", "work io"}
        /\ closer["drain"] # "idle" => "admission" \in built
        /\ sdk = 1 => "admission" \notin built \/ closer["drain"] \in {"sdk", "ended"}
    BY DEF HostInv, DrainInv
  <2>2. sdk' = 1 => sdk = 1 \/ point = "sdk" BY <1>5 DEF Onwards
  <2>3. CASE p = "drain"
    <3>1. closer'["drain"] = point BY <1>10, <2>3
    <3>2. closer["drain"] # "idle" BY <2>3
    <3>3. cut'["drain"] => point \in {"jobs", "tokens", "work io"} BY <2>3
    <3>4. sdk = 1 => point \in {"sdk", "ended"} BY <2>3
    <3> QED BY <2>1, <2>2, <3>1, <3>2, <3>3, <3>4 DEF DrainInv
  <2>4. CASE p # "drain"
    <3>1. \/ closer'["drain"] = closer["drain"]
          \/ /\ point = "admission" /\ closer'["drain"] = "created" /\ closer["drain"] = "idle"
      BY <1>5, <2>0, <2>4 DEF Onwards
    <3>2. cut'["drain"] = cut["drain"] BY <2>0, <2>4
    <3>3. point = "sdk" => "admission" \notin built BY <1>4, <2>4
    <3>4. CASE closer'["drain"] = closer["drain"]
      BY <2>1, <2>2, <3>2, <3>3, <3>4 DEF DrainInv
    <3>5. CASE point = "admission" /\ closer'["drain"] = "created" /\ closer["drain"] = "idle"
      <4>1. sdk # 1 BY <1>3, <2>1, <3>5
      <4> QED BY <1>3, <2>1, <2>2, <3>2, <3>5, <4>1 DEF DrainInv
    <3> QED BY <3>1, <3>4, <3>5
  <2> QED BY <2>3, <2>4
<1> QED BY <1>5, <1>6, <1>11, <1>12, <1>13 DEF HostInv

LEMMA HostBegin ==
  ASSUME HostConstants, HostInv, NEW p \in Host!Closers, Host!Begin(p)
  PROVE  HostInv'
<1> DEFINE point == Host!Onward(p)
<1>1. /\ closer[p] = "idle" /\ p # "drain" /\ (p = "lifespan" => built = Host!Resources)
      /\ Host!Enters(p, point)
      /\ UNCHANGED <<flight, asks, jobs, failing, built, bindings, cut, cuts>>
  BY DEF Host!Begin, Host!world
<1>2. Follows(p, point) BY OnwardFollows DEF HostInv
<1> HIDE DEF point
<1>3. \A s \in Host!Way(p) : Host!Has(s) => ~(Host!Position(s) < Host!Position(point))
  <2> TAKE s \in Host!Way(p)
  <2>1. Host!Position(s) \in 1..10 BY WaysAreStages, PlacesApart
  <2>2. Host!Position(closer[p]) = 0 BY <1>1, Positions
  <2>3. ~(Host!Position(s) <= 0) BY <2>1
  <2> QED BY <1>2, <2>2, <2>3 DEF Follows
<1>4. cut' \in [Host!Closers -> BOOLEAN] /\ cuts' \in 0..MaxCuts
  BY <1>1 DEF HostInv, Host!TypeOK
<1>5. closer[p] # "ended" /\ point \in Host!Way(p) \cup {"ended"}
      /\ (point \in Host!Way(p) => Host!Has(point))
  BY <1>1, <1>2 DEF Follows
<1> QED BY <1>1, <1>3, <1>4, <1>5, CloserKeeps

\* A closer that goes on to what follows has closed all it has passed.
LEMMA PassesOn ==
  ASSUME HostInv, NEW p \in Host!Closers, ~cut[p], closer[p] \notin {"idle", "ended"},
         ~Host!Awaits(p)
  PROVE  \A s \in Host!Way(p) :
           Host!Has(s) /\ Host!Position(s) < Host!Position(Host!Onward(p)) => Closed(s)
<1> SUFFICES ASSUME NEW s \in Host!Way(p), Host!Has(s),
                    Host!Position(s) < Host!Position(Host!Onward(p))
             PROVE  Closed(s)
  OBVIOUS
<1>1. Host!Position(s) <= Host!Position(closer[p]) BY OnwardFollows DEF HostInv, Follows
<1>2. s \in Host!Stages \ {"idle", "created"} /\ Host!Position(s) \in 1..10
  BY WaysAreStages, PlacesApart
<1>3. closer[p] \in Host!Stages /\ Host!Position(closer[p]) \in 0..10
  BY PositionTypes DEF HostInv, Host!TypeOK
<1>4. CASE Host!Position(s) < Host!Position(closer[p])
  BY <1>4 DEF HostInv, StageInv
<1>5. CASE Host!Position(s) = Host!Position(closer[p])
  <2>1. closer[p] \notin {"idle", "created"}
    <3>1. Host!Position(closer[p]) # 0 BY <1>2, <1>5
    <3> QED BY <3>1, Positions
  <2>2. s = closer[p] BY <1>2, <1>3, <1>5, <2>1, PlacesApart
  <2>3. Closed(closer[p]) BY <2>2, AwaitedClosed
  <2> QED BY <2>2, <2>3
<1> QED BY <1>1, <1>2, <1>3, <1>4, <1>5

LEMMA OnwardNext ==
  ASSUME HostInv, NEW p \in Host!Closers, NEW b \in Host!Way(p), Host!Has(b),
         NextTo(closer[p], b)
  PROVE  Host!Onward(p) = b
<1> DEFINE o == Host!Onward(p)
<1>1. Follows(p, o) BY OnwardFollows DEF HostInv
<1> HIDE DEF o
<1>2. b \in Host!Stages \ {"idle", "created"} /\ b # "ended" BY WaysAreStages
<1>3. o \in Host!Stages \ {"idle", "created"} BY <1>1, WaysAreStages DEF Follows, Host!Stages
<1>4. Host!Position(b) \in 1..10 /\ Host!Position(o) \in 1..10 BY <1>2, <1>3, PlacesApart
<1>5. Host!Position(closer[p]) \in 0..10 BY PositionTypes DEF HostInv, Host!TypeOK
<1>6. ~(Host!Position(b) < Host!Position(o)) BY <1>1, <1>4, <1>5 DEF Follows, NextTo
<1>7. o # "ended"
  <2>1. Host!Position("ended") = 10 /\ "ended" \in Host!Stages \ {"idle", "created"}
    BY Positions DEF Host!Stages
  <2>2. Host!Position(b) # 10 BY <1>2, <2>1, PlacesApart
  <2> QED BY <1>4, <1>6, <2>1, <2>2
<1>8. Host!Position(closer[p]) < Host!Position(o) BY <1>1, <1>7 DEF Follows
<1>9. Host!Position(o) = Host!Position(b) BY <1>4, <1>5, <1>6, <1>8 DEF NextTo
<1> QED BY <1>2, <1>3, <1>9, PlacesApart DEF o

\* Where the drain goes from each stage of work.close().
LEMMA DrainOnward ==
  ASSUME HostInv
  PROVE  /\ closer["drain"] = "provider" => Host!Onward("drain") = "jobs"
         /\ closer["drain"] = "jobs" => Host!Onward("drain") = "tokens"
         /\ closer["drain"] = "tokens" => Host!Onward("drain") = "work io"
         /\ closer["drain"] = "sdk" => Host!Onward("drain") = "ended"
<1>0. "drain" \in Host!Closers BY DEF Host!Closers
<1>2. Host!Way("drain") = {"provider", "jobs", "tokens", "work io", "admission io", "sdk"}
  BY DEF Host!Way, Host!Close
<1>3. closer["drain"] \in {"provider", "jobs", "tokens"} =>
        Host!Has("jobs") /\ Host!Has("tokens") /\ Host!Has("work io")
  <2> HAVE closer["drain"] \in {"provider", "jobs", "tokens"}
  <2>1. Host!Has(closer["drain"]) BY <1>0, <1>2 DEF HostInv, EnteredInv
  <2> QED BY <2>1 DEF Host!Has
<1>4. ASSUME closer["drain"] = "provider" PROVE Host!Onward("drain") = "jobs"
  <2>1. NextTo(closer["drain"], "jobs") BY <1>4, NextTos, Zenon
  <2>2. "jobs" \in Host!Way("drain") /\ Host!Has("jobs") BY <1>2, <1>3, <1>4
  <2> QED BY <1>0, <2>1, <2>2, OnwardNext
<1>5. ASSUME closer["drain"] = "jobs" PROVE Host!Onward("drain") = "tokens"
  <2>1. NextTo(closer["drain"], "tokens") BY <1>5, NextTos, Zenon
  <2>2. "tokens" \in Host!Way("drain") /\ Host!Has("tokens") BY <1>2, <1>3, <1>5
  <2> QED BY <1>0, <2>1, <2>2, OnwardNext
<1>6. ASSUME closer["drain"] = "tokens" PROVE Host!Onward("drain") = "work io"
  <2>1. NextTo(closer["drain"], "work io") BY <1>6, NextTos, Zenon
  <2>2. "work io" \in Host!Way("drain") /\ Host!Has("work io") BY <1>2, <1>3, <1>6
  <2> QED BY <1>0, <2>1, <2>2, OnwardNext
<1>7. ASSUME closer["drain"] = "sdk" PROVE Host!Onward("drain") = "ended"
  <2>1. Follows("drain", Host!Onward("drain")) BY <1>0, OnwardFollows DEF HostInv
  <2>2. Host!Onward("drain") \in Host!Way("drain") => Before("sdk", Host!Onward("drain"))
    BY <1>7, <2>1, Zenon DEF Follows, Before
  <2> QED BY <2>1, <2>2, Befores DEF Follows
<1> QED BY <1>4, <1>5, <1>6, <1>7

LEMMA DrainPlaces ==
  ASSUME HostInv
  PROVE  closer["drain"] \in {"idle", "created", "provider", "jobs", "tokens", "work io",
                             "admission io", "sdk", "ended"}
BY DEF HostInv, EnteredInv, Host!Way, Host!Close, Host!Closers

LEMMA LifespanBegan ==
  ASSUME HostInv, closer["lifespan"] # "idle"
  PROVE  built = Host!Resources
BY DEF HostInv, IdleInv

\* What is before the first stage of the drain was not constructed.
LEMMA DrainStarts ==
  ASSUME HostInv, closer["drain"] # "idle"
  PROVE  /\ Host!Out("drain") \in Host!Way("drain") /\ Host!Has(Host!Out("drain"))
         /\ \A s \in Host!Way("drain") : Host!Has(s) => ~Before(s, Host!Out("drain"))
<1> DEFINE o == Host!Out("drain")
<1>1. "admission" \in built BY DEF HostInv, DrainInv
<1>2. Host!Way("drain") = {"provider", "jobs", "tokens", "work io", "admission io", "sdk"}
  BY DEF Host!Way, Host!Close
<1>3. o = IF Host!Has("provider") THEN "provider" ELSE "admission io" BY DEF Host!Out
<1>4. Host!Has("admission io") BY <1>1 DEF Host!Has
<1>5. ~Host!Has("provider") =>
        ~Host!Has("jobs") /\ ~Host!Has("tokens") /\ ~Host!Has("work io")
  BY DEF Host!Has
<1> HIDE DEF o
<1>6. \A s \in Host!Way("drain") : ~Before(s, "provider")
  <2> DEFINE p2 == Host!Position("provider")  p3 == Host!Position("jobs")
             p4 == Host!Position("tokens")  p5 == Host!Position("work io")
             p7 == Host!Position("admission io")  p8 == Host!Position("sdk")
  <2>1. p2 = 2 /\ p3 = 3 /\ p4 = 4 /\ p5 = 5 /\ p7 = 7 /\ p8 = 8 BY Positions
  <2> HIDE DEF p2, p3, p4, p5, p7, p8
  <2>2. ~(p2 < p2) /\ ~(p3 < p2) /\ ~(p4 < p2) /\ ~(p5 < p2) /\ ~(p7 < p2) /\ ~(p8 < p2)
    BY <2>1
  <2> QED BY <1>2, <2>2, Zenon DEF Before, p2, p3, p4, p5, p7, p8
<1>7. ~Before("admission io", "admission io") /\ ~Before("sdk", "admission io")
  <2> DEFINE p7 == Host!Position("admission io")  p8 == Host!Position("sdk")
  <2>1. p7 = 7 /\ p8 = 8 BY Positions
  <2> HIDE DEF p7, p8
  <2>2. ~(p7 < p7) /\ ~(p8 < p7) BY <2>1
  <2> QED BY <2>2, Zenon DEF Before, p7, p8
<1>8. CASE Host!Has("provider") BY <1>2, <1>3, <1>6, <1>8 DEF o
<1>9. CASE ~Host!Has("provider")
  <2>1. o = "admission io" BY <1>3, <1>9
  <2>2. \A s \in Host!Way("drain") : Host!Has(s) => s = "admission io" \/ s = "sdk"
    BY <1>2, <1>5, <1>9
  <2> QED BY <1>2, <1>4, <1>7, <2>1, <2>2, Zenon DEF o
<1> QED BY <1>8, <1>9

\* The drain begins again.
LEMMA DrainAgain ==
  ASSUME HostConstants, HostInv, closer["drain"] \notin {"idle", "ended", "sdk"},
         Host!Enters("drain", Host!Out("drain")),
         cut' = [cut EXCEPT !["drain"] = FALSE], cuts' \in 0..MaxCuts,
         UNCHANGED <<flight, asks, jobs, failing, built, bindings>>
  PROVE  HostInv'
<1> DEFINE o == Host!Out("drain")
<1>0. "drain" \in Host!Closers BY DEF Host!Closers
<1>1. /\ o \in Host!Way("drain") /\ Host!Has(o)
      /\ \A s \in Host!Way("drain") : Host!Has(s) => ~Before(s, o)
  BY DrainStarts
<1> HIDE DEF o
<1>2. /\ cut' \in [Host!Closers -> BOOLEAN] /\ ~cut'["drain"]
      /\ \A q \in Host!Closers : q # "drain" => cut'[q] = cut[q]
  BY <1>0 DEF HostInv, Host!TypeOK
<1>3. sdk # 1 BY DEF HostInv, DrainInv
<1>4. \A s \in Host!Way("drain") :
        Host!Has(s) /\ Host!Position(s) < Host!Position(o) => Closed(s)
  BY <1>1, Zenon DEF Before
<1>5. Host!Enters("drain", o) BY DEF o
<1> QED BY <1>0, <1>1, <1>2, <1>3, <1>4, <1>5, CloserKeeps

LEMMA HostProceed ==
  ASSUME HostConstants, HostInv, NEW p \in Host!Closers, Host!Proceed(p)
  PROVE  HostInv'
<1>1. /\ closer[p] \notin {"idle", "ended"} /\ ~Host!Awaits(p)
      /\ UNCHANGED <<flight, asks, jobs, failing, built, bindings, cuts>>
  BY DEF Host!Proceed, Host!world
<1>2. p = "lifespan" => built = Host!Resources BY <1>1, LifespanBegan
<1>3. cuts' \in 0..MaxCuts BY <1>1 DEF HostInv, Host!TypeOK
<1>4. CASE closer[p] = "work io" /\ cut[p] /\ p = "drain"
  <2>1. Host!Enters("drain", Host!Out("drain")) /\ cut' = [cut EXCEPT !["drain"] = FALSE]
    BY <1>4 DEF Host!Proceed
  <2> QED BY <1>1, <1>3, <1>4, <2>1, DrainAgain
<1>5. CASE closer[p] = "work io" /\ cut[p] /\ p # "drain"
  <2> DEFINE o == Host!Out(p)
  <2>1. Host!Enters(p, o) /\ cut' = [cut EXCEPT ![p] = TRUE]
    BY <1>5 DEF Host!Proceed
  <2>2. o = IF p = "lifespan" THEN "admission" ELSE "ended" BY <1>5 DEF Host!Out, Host!Closers
  <2>3. o \in Host!Way(p) \cup {"ended"} /\ (o \in Host!Way(p) => Host!Has(o))
    <3>1. CASE p = "lifespan"
      <4>1. o = "admission" /\ "admission" \in built BY <1>2, <2>2, <3>1 DEF Host!Resources
      <4> QED BY <3>1, <4>1 DEF Host!Way, Host!Has
    <3>2. CASE p # "lifespan"
      <4>1. o = "ended" BY <2>2, <3>2
      <4> QED BY <4>1, WaysAreStages
    <3> QED BY <3>1, <3>2
  <2> HIDE DEF o
  <2>4. /\ cut' \in [Host!Closers -> BOOLEAN] /\ cut'[p]
        /\ \A q \in Host!Closers : q # p => cut'[q] = cut[q]
    BY <2>1 DEF HostInv, Host!TypeOK
  <2> QED BY <1>1, <1>2, <1>3, <1>5, <2>1, <2>3, <2>4, CloserKeeps
<1>6. CASE ~(closer[p] = "work io" /\ cut[p])
  <2> DEFINE o == Host!Onward(p)
  <2>1. Host!Enters(p, o) /\ UNCHANGED cut
    BY <1>6 DEF Host!Proceed
  <2>2. Follows(p, o) BY OnwardFollows DEF HostInv
  <2>3. ~cut[p] => \A s \in Host!Way(p) :
          Host!Has(s) /\ Host!Position(s) < Host!Position(o) => Closed(s)
    BY <1>1, PassesOn
  <2>4. p = "drain" => /\ cut'[p] => o \in {"jobs", "tokens", "work io"}
                       /\ sdk = 1 => o \in {"sdk", "ended"}
    <3> HAVE p = "drain"
    <3>1. cut'[p] => o \in {"jobs", "tokens", "work io"}
      <4> HAVE cut'[p]
      <4>1. closer["drain"] \in {"jobs", "tokens"}
        BY <1>6, <2>1 DEF HostInv, DrainInv
      <4> QED BY <4>1, DrainOnward
    <3>2. sdk = 1 => o \in {"sdk", "ended"}
      <4> HAVE sdk = 1
      <4>1. closer["drain"] = "sdk"
        BY <1>1 DEF HostInv, DrainInv
      <4> QED BY <4>1, DrainOnward
    <3> QED BY <3>1, <3>2
  <2> HIDE DEF o
  <2>5. cut' \in [Host!Closers -> BOOLEAN] BY <2>1 DEF HostInv, Host!TypeOK
  <2>6. o \in Host!Way(p) \cup {"ended"} /\ (o \in Host!Way(p) => Host!Has(o))
    BY <2>2 DEF Follows
  <2> QED BY <1>1, <1>2, <1>3, <2>1, <2>3, <2>4, <2>5, <2>6, CloserKeeps
<1> QED BY <1>4, <1>5, <1>6
LEMMA HostCancel ==
  ASSUME HostConstants, HostInv, NEW p \in Host!Closers, Host!CancelCloser(p)
  PROVE  HostInv'
<1> DEFINE o == Host!CancelledTo(p)
           b == p # "drain" \/ closer[p] \in {"provider", "tokens"}
<1>1. /\ closer[p] \notin {"idle", "created", "ended"} /\ Host!Awaits(p) /\ Host!Enters(p, o)
      /\ cut' = [cut EXCEPT ![p] = b] /\ cuts < MaxCuts /\ cuts' = cuts + 1
      /\ UNCHANGED <<flight, asks, jobs, failing, built, bindings>>
  BY DEF Host!CancelCloser, Host!world
<1>2. p = "lifespan" => built = Host!Resources BY <1>1, LifespanBegan
<1>3. cuts' \in 0..MaxCuts BY <1>1 DEF HostInv, Host!TypeOK, HostConstants
<1>4. Follows(p, Host!Onward(p)) BY OnwardFollows DEF HostInv
<1>5. closer[p] \notin {"sdk", "service"} BY <1>1 DEF Host!Awaits
<1>6. CASE p = "drain"
  <2>1. CASE closer[p] \in {"provider", "tokens"}
    <3>1. o = Host!Onward("drain") BY <1>6, <2>1 DEF Host!CancelledTo
    <3>2. o \in {"jobs", "work io"} BY <1>6, <2>1, <3>1, DrainOnward
    <3>3. o \in Host!Way(p) \cup {"ended"} /\ (o \in Host!Way(p) => Host!Has(o))
      BY <1>4, <1>6, <3>1 DEF Follows
    <3>4. b BY <2>1
    <3>5. sdk # 1 BY <1>6, <2>1 DEF HostInv, DrainInv
    <3> HIDE DEF o, b
    <3>6. /\ cut' \in [Host!Closers -> BOOLEAN] /\ cut'[p]
          /\ \A q \in Host!Closers : q # p => cut'[q] = cut[q]
      <4>1. cut' = [cut EXCEPT ![p] = TRUE] BY <1>1, <3>4
      <4> QED BY <4>1 DEF HostInv, Host!TypeOK
    <3> QED BY <1>1, <1>2, <1>3, <3>2, <3>3, <3>5, <3>6, CloserKeeps
  <2>2. CASE closer[p] \notin {"provider", "tokens"}
    <3>1. o = Host!Out("drain")
      BY <1>6, <2>2 DEF Host!CancelledTo
    <3>2. b = FALSE BY <1>6, <2>2
    <3> HIDE DEF o, b
    <3>3. cut' = [cut EXCEPT !["drain"] = FALSE] BY <1>1, <1>6, <3>2
    <3> QED BY <1>1, <1>3, <1>5, <1>6, <3>1, <3>3, DrainAgain
  <2> QED BY <2>1, <2>2
<1>7. CASE p # "drain"
  <2>1. b BY <1>7
  <2>2. o \in {Host!Onward(p), Host!Out(p), "ended"}
    BY <1>7 DEF Host!CancelledTo
  <2>3. o \in Host!Way(p) \cup {"ended"} /\ (o \in Host!Way(p) => Host!Has(o))
    <3> HIDE DEF o
    <3>1. CASE o = Host!Onward(p) BY <1>4, <3>1 DEF Follows
    <3>2. CASE o = Host!Out(p)
      <4>1. CASE p = "lifespan"
        <5>1. o = "admission" /\ "admission" \in built
          BY <1>2, <3>2, <4>1 DEF Host!Out, Host!Resources
        <5> QED BY <4>1, <5>1 DEF Host!Way, Host!Has
      <4>2. CASE p # "lifespan"
        <5>1. o = "ended" BY <1>7, <3>2, <4>2 DEF Host!Out, Host!Closers
        <5> QED BY <5>1, WaysAreStages
      <4> QED BY <4>1, <4>2
    <3>3. CASE o = "ended" BY <3>3, WaysAreStages
    <3> QED BY <2>2, <3>1, <3>2, <3>3
  <2> HIDE DEF o, b
  <2>4. /\ cut' \in [Host!Closers -> BOOLEAN] /\ cut'[p]
        /\ \A q \in Host!Closers : q # p => cut'[q] = cut[q]
    <3>1. cut' = [cut EXCEPT ![p] = TRUE] BY <1>1, <2>1
    <3> QED BY <3>1 DEF HostInv, Host!TypeOK
  <2> QED BY <1>1, <1>2, <1>3, <1>7, <2>3, <2>4, CloserKeeps
<1> QED BY <1>6, <1>7

LEMMA AssemblyNext ==
  ASSUME HostConstants, HostInv, [Host!Next]_Host!vars
  PROVE  HostInv'
<1>1. ASSUME NEW c \in Callers,
             \/ \E what \in {"work", "probe"} : Host!AskProvider(c, what)
             \/ \E what \in {"access", "local", "storefront"} : Host!AskThread(c, what)
             \/ Host!VerifierEnds(c) \/ Host!Verified(c) \/ Host!GivesUp(c) \/ Host!JobCalls(c)
             \/ Host!Found(c) \/ Host!Finish(c) \/ Host!Abandon(c) \/ Host!JobEnds(c)
      PROVE  HostInv'
  BY <1>1, HostAskProvider, HostAskThread, HostVerifierEnds, HostVerified, HostGivesUp,
     HostJobCalls, HostFound, HostFinish, HostAbandon, HostJobEnds
<1>2. ASSUME NEW io \in Host!IO, NEW x \in Callers \cup Host!Closers, Host!Ends(io, x)
      PROVE  HostInv'
  BY <1>2, HostEnds
<1>3. ASSUME NEW p \in Host!Closers, Host!Begin(p) \/ Host!Proceed(p) \/ Host!CancelCloser(p)
      PROVE  HostInv'
  BY <1>3, HostBegin, HostProceed, HostCancel
<1>4. CASE Host!LoseAuthority \/ Host!Import \/ Host!Rebind BY <1>4, HostWorld
<1>5. CASE UNCHANGED Host!vars
  <2>1. /\ UNCHANGED <<built, verification, flight, refusing, jobs, sealed, shut, closer, cut, sdk,
                       cuts, guarded, failing, bindings, asks>>
    BY <1>5 DEF Host!vars
  <2>2. /\ failing' \in BOOLEAN /\ bindings' \in BOOLEAN /\ asks' \in [Callers -> AskType]
        /\ guarded' \in [Host!IO -> SUBSET (Callers \cup Host!Closers)]
        /\ \A io \in Host!IO : guarded'[io] \subseteq guarded[io]
    BY <2>1 DEF HostInv, Host!TypeOK, AskType
  <2> QED BY <2>1, <2>2, WorldLeaves
<1> QED BY <1>1, <1>2, <1>3, <1>4, <1>5 DEF Host!Next

LEMMA HostSafe ==
  ASSUME HostInv
  PROVE  Host!AssemblyHolds
<1>0. "drain" \in Host!Closers /\ "lifespan" \in Host!Closers /\ "cleanup" \in Host!Closers
  BY DEF Host!Closers
<1>1. Host!OneVerification
  BY DEF HostInv, FlightInv, CallersInv, Granted, Host!OneVerification
\* A drain that has come to the SDK was not cancelled since it began.
<1>2. closer["drain"] \in {"sdk", "ended"} =>
        \A s \in {"provider", "jobs", "work io", "admission io"} : Host!Has(s) => Closed(s)
  <2> HAVE closer["drain"] \in {"sdk", "ended"}
  <2>1. ~cut["drain"] BY DEF HostInv, DrainInv
  <2>2. {"provider", "jobs", "work io", "admission io"} \subseteq Host!Way("drain")
    BY DEF Host!Way, Host!Close
  <2>3. \A s \in {"provider", "jobs", "work io", "admission io"} : Before(s, closer["drain"])
    <3> DEFINE p2 == Host!Position("provider")  p3 == Host!Position("jobs")
               p5 == Host!Position("work io")  p7 == Host!Position("admission io")
               p8 == Host!Position("sdk")  p10 == Host!Position("ended")
    <3>1. p2 = 2 /\ p3 = 3 /\ p5 = 5 /\ p7 = 7 /\ p8 = 8 /\ p10 = 10 BY Positions
    <3> HIDE DEF p2, p3, p5, p7, p8, p10
    <3>2. p2 < p8 /\ p3 < p8 /\ p5 < p8 /\ p7 < p8 /\ p2 < p10 /\ p3 < p10 /\ p5 < p10 /\ p7 < p10
      BY <3>1
    <3> QED BY <3>2, Zenon DEF Before, p2, p3, p5, p7, p8, p10
  <2> QED BY <1>0, <2>1, <2>2, <2>3, Zenon DEF HostInv, StageInv, Before
<1>3. built \in Host!Prefixes /\ "admission" \notin built => "work" \notin built
  BY DEF Host!Prefixes, Host!Resources
<1>4. built \in Host!Prefixes /\ shut \subseteq Host!IO BY DEF HostInv, Host!TypeOK
<1>5. Host!SDKIsLast
  <2> SUFFICES ASSUME sdk = 1
               PROVE  /\ built \cap {"work", "admission"} \subseteq shut
                      /\ guarded["work"] = {} /\ guarded["admission"] = {} /\ jobs = {}
                      /\ \A c \in Callers : ~Host!Verifying(c)
    BY DEF Host!SDKIsLast
  <2>1. CASE "admission" \notin built
    <3>1. built # Host!Resources /\ "work" \notin built BY <1>3, <1>4, <2>1 DEF Host!Resources
    <3> QED BY <2>1, <3>1 DEF HostInv, IdleInv
  <2>2. CASE "admission" \in built
    <3>1. closer["drain"] \in {"sdk", "ended"} BY <2>2 DEF HostInv, DrainInv
    <3>2. "admission" \in shut /\ guarded["admission"] = {}
      BY <1>2, <2>2, <3>1 DEF Host!Has, Closed
    <3>3. CASE "work" \in built
      <4>1. Closed("provider") /\ Closed("jobs") /\ Closed("work io")
        BY <1>2, <3>1, <3>3 DEF Host!Has
      <4> QED BY <3>2, <4>1 DEF Closed
    <3>4. CASE "work" \notin built
      <4>1. built # Host!Resources BY <3>4 DEF Host!Resources
      <4> QED BY <3>2, <3>4, <4>1 DEF HostInv, IdleInv
    <3> QED BY <3>3, <3>4
  <2> QED BY <2>1, <2>2
<1>6. Host!NothingIsLeft
  <2> SUFFICES ASSUME NEW p \in {"lifespan", "cleanup"}, closer[p] = "ended", ~cut[p]
               PROVE  /\ "sdk" \in built => sdk = 1
                      /\ built \cap Host!IO \subseteq shut
                      /\ \A io \in Host!IO : guarded[io] = {}
    BY DEF Host!NothingIsLeft
  <2>1. \A s \in Host!Way(p) : Host!Has(s) => Closed(s)
    <3>1. \A s \in Host!Way(p) : Before(s, closer[p]) BY Befores, Zenon
    <3> QED BY <1>0, <3>1, Zenon DEF HostInv, StageInv, Before
  <2>2. {"checks", "provider", "jobs", "tokens", "work io", "admission"} \subseteq Host!Way(p)
    BY DEF Host!Way, Host!Close
  <2>3. "checks" \in built => "checks" \in shut /\ guarded["checks"] = {}
    BY <2>1, <2>2 DEF Host!Has, Closed
  <2>4. "checks" \notin built => guarded["checks"] = {}
    BY DEF HostInv, IdleInv, Host!Resources
  <2>5. "work" \in built => "work" \in shut /\ guarded["work"] = {}
    BY <2>1, <2>2 DEF Host!Has, Closed
  <2>6. "work" \notin built => guarded["work"] = {}
    BY DEF HostInv, IdleInv
  <2>7. "admission" \in built =>
          "admission" \in shut /\ guarded["admission"] = {} /\ ("sdk" \in built => sdk = 1)
    <3> HAVE "admission" \in built
    <3>1. closer["drain"] = "ended" BY <2>1, <2>2 DEF Host!Has, Closed
    <3>2. "admission" \in shut /\ guarded["admission"] = {}
      BY <1>2, <3>1 DEF Host!Has, Closed
    <3>3. "sdk" \in built => sdk = 1
      <4> HAVE "sdk" \in built
      <4>1. ~cut["drain"] BY <3>1 DEF HostInv, DrainInv
      <4>2. "sdk" \in Host!Way("drain") BY DEF Host!Way
      <4>3. Before("sdk", closer["drain"]) BY <3>1, <4>2, Befores, Zenon
      <4>4. Host!Has("sdk") BY DEF Host!Has
      <4>5. Closed("sdk") BY <1>0, <4>1, <4>2, <4>3, <4>4, Zenon DEF HostInv, StageInv, Before
      <4> QED BY <4>5 DEF Closed
    <3> QED BY <3>2, <3>3
  <2>8. "admission" \notin built => guarded["admission"] = {} /\ ("sdk" \in built => sdk = 1)
    <3> HAVE "admission" \notin built
    <3>1. built # Host!Resources BY DEF Host!Resources
    <3>2. p = "cleanup" BY <3>1 DEF HostInv, IdleInv
    <3>3. "sdk" \in Host!Way(p) BY <3>2 DEF Host!Way
    <3>4. "sdk" \in built => Host!Has("sdk") BY DEF Host!Has
    <3> QED BY <2>1, <3>1, <3>3, <3>4 DEF Closed, HostInv, IdleInv
  <2> QED BY <2>3, <2>4, <2>5, <2>6, <2>7, <2>8 DEF Host!IO
<1> QED BY <1>1, <1>5, <1>6 DEF HostInv, Host!AssemblyHolds

LEMMA HostIsProper == HostConstants
BY HostAssumption, NilAssumption DEF HostConstants

(* However a host is closed, in whatever order and however often the closing *)
(* is cancelled: one verification at a time, the SDK client last, and        *)
(* nothing left by whoever was not cancelled.                                *)
THEOREM HostIsClosed == Host!Spec => []Host!AssemblyHolds
<1>1. Host!Init => HostInv BY AssemblyInit, HostIsProper
<1>2. HostInv /\ [Host!Next]_Host!vars => HostInv' BY AssemblyNext, HostIsProper
<1>3. HostInv => Host!AssemblyHolds BY HostSafe
<1> QED BY <1>1, <1>2, <1>3, PTL DEF Host!Spec
-----------------------------------------------------------------------------
(* ServiceProcesses: what an owner of services leaves behind.                *)
ServicesType ==
  /\ kind \in [Owners -> Services!Kinds]
  /\ where \in [Owners -> {"idle", "probing", "spawning", "waiting", "running", "stopping",
                          "closing", "ended"}]
  /\ todo \in [Owners -> SUBSET Service]
  /\ again \in [Owners -> Service \cup {"none"}]
  /\ child \in [Owners -> [Service -> {"none", "booting", "serving", "exited"}]]
  /\ signal \in [Owners -> [Service -> {"none", "terminate", "kill"}]]
  /\ stray \in [Owners -> BOOLEAN] /\ stuck \in [Owners -> BOOLEAN]

\* Who is started when.  Nothing lives that a closing owner has not still to
\* stop, and in an evaluation it has been told so.
Told(o, s) == kind[o] = "evaluation" => signal[o][s] # "none"
Started(o) ==
  /\ where[o] \in {"idle", "probing"} => \A s \in Service : child[o][s] = "none"
  /\ where[o] = "spawning" => \A s \in todo[o] : child[o][s] = "none"
  /\ where[o] = "stopping" => again[o] \in Service
Stopped(o) ==
  \A s \in Service : Services!Alive(o, s) =>
    /\ where[o] = "closing" => s \in todo[o] /\ Told(o, s)
    /\ where[o] = "ended" => stray[o] \/ (stuck[o] /\ Told(o, s))

ServicesInv ==
  /\ ServicesType
  /\ \A o \in Owners : Started(o) /\ Stopped(o)
  /\ Services!NeverTwice

LEMMA ServicesInit == Services!Init => ServicesInv
BY SMTT(60) DEF Services!Init, ServicesInv, ServicesType, Started, Stopped, Told, Services!NeverTwice,
  Services!Kinds, Services!Alive

\* Closing an owner.
LEMMA CloseSettles ==
  ASSUME ServicesInv, NEW o \in Owners, Services!Closes(o), UNCHANGED <<kind, child>>
  PROVE  /\ todo' \in [Owners -> SUBSET Service]
         /\ again' \in [Owners -> Service \cup {"none"}]
         /\ where' = [where EXCEPT ![o] = "closing"]
         /\ signal' \in [Owners -> [Service -> {"none", "terminate", "kill"}]]
         /\ \A x \in Owners : x # o => todo'[x] = todo[x] /\ again'[x] = again[x] /\ signal'[x] = signal[x]
         /\ \A s \in Service : Services!Alive(o, s) => s \in todo'[o] /\ Told(o, s)'
<1> USE DEF ServicesInv, ServicesType
<1>1. /\ todo' = [todo EXCEPT ![o] = {s \in Service : child[o][s] # "none"}]
      /\ again' = [again EXCEPT ![o] = "none"]
      /\ where' = [where EXCEPT ![o] = "closing"]
  BY DEF Services!Closes, Services!Moves, Services!Started
<1>2. CASE kind[o] = "evaluation"
  <2> DEFINE every == [s \in Service |->
                       IF Services!Alive(o, s) /\ signal[o][s] = "none" THEN "terminate" ELSE signal[o][s]]
  <2>1. signal' = [signal EXCEPT ![o] = every]
    BY <1>2 DEF Services!Closes
  <2>2. every \in [Service -> {"none", "terminate", "kill"}] OBVIOUS
  <2>3. \A s \in Service : Services!Alive(o, s) => every[s] # "none" OBVIOUS
  <2> HIDE DEF every
  <2>4. signal'[o] = every BY <2>1
  <2> QED BY <1>1, <2>1, <2>2, <2>3, <2>4 DEF Told, Services!Alive
<1>3. CASE kind[o] # "evaluation"
  <2>1. signal' = signal BY <1>3 DEF Services!Closes
  <2> QED BY <1>1, <1>3, <2>1 DEF Told, Services!Alive
<1> QED BY <1>2, <1>3

\* What an owner does leaves the others as they are.
Apart(o) ==
  \A x \in Owners : x # o =>
    /\ where'[x] = where[x] /\ todo'[x] = todo[x] /\ again'[x] = again[x]
    /\ child'[x] = child[x] /\ signal'[x] = signal[x]
    /\ stray'[x] = stray[x] /\ stuck'[x] = stuck[x]

LEMMA ServicesFrame ==
  ASSUME ServicesInv, NEW o \in Owners, Apart(o), kind' = kind,
         ServicesType', Started(o)', Stopped(o)', Services!NeverTwice'
  PROVE  ServicesInv'
<1> SUFFICES ASSUME NEW x \in Owners, x # o PROVE Started(x)' /\ Stopped(x)'
  BY DEF ServicesInv
<1>1. Started(x) /\ Stopped(x) BY DEF ServicesInv
<1> QED BY <1>1 DEF Apart, Started, Stopped, Told, Services!Alive

LEMMA ServicesClosing ==
  ASSUME ServicesInv, NEW o \in Owners, Services!Closes(o), UNCHANGED <<kind, child, doubled>>,
         stray' = stray, stuck' \in [Owners -> BOOLEAN],
         \A x \in Owners : x # o => stuck'[x] = stuck[x]
  PROVE  ServicesInv'
<1>1. /\ ServicesType' /\ where'[o] = "closing" /\ Apart(o)
      /\ \A s \in Service : Services!Alive(o, s)' => s \in todo'[o] /\ Told(o, s)'
  <2>1. /\ todo' \in [Owners -> SUBSET Service]
        /\ again' \in [Owners -> Service \cup {"none"}]
        /\ where' = [where EXCEPT ![o] = "closing"]
        /\ signal' \in [Owners -> [Service -> {"none", "terminate", "kill"}]]
        /\ \A x \in Owners : x # o => todo'[x] = todo[x] /\ again'[x] = again[x] /\ signal'[x] = signal[x]
        /\ \A s \in Service : Services!Alive(o, s) => s \in todo'[o] /\ Told(o, s)'
    BY CloseSettles
  <2> QED BY <2>1 DEF ServicesInv, ServicesType, Apart, Services!Alive
<1> QED BY <1>1, ServicesFrame DEF Started, Stopped, Services!NeverTwice, ServicesInv

LEMMA ServicesMoving ==
  ASSUME ServicesInv, NEW o \in Owners, NEW spot, NEW rest \in SUBSET Service,
         Services!Moves(o, spot, rest), UNCHANGED <<kind, child, signal, stray, stuck, doubled>>,
         again' \in [Owners -> Service \cup {"none"}], \A x \in Owners : x # o => again'[x] = again[x],
         spot \in {"probing", "spawning", "waiting", "running", "stopping", "closing", "ended"},
         spot = "probing" => where[o] \in {"idle", "probing"},
         spot = "spawning" => where[o] \in {"idle", "probing"},
         spot = "stopping" => again'[o] \in Service,
         spot = "closing" =>
           where[o] = "closing" /\ \A s \in Service : s \notin rest => s \notin todo[o] \/ ~Services!Alive(o, s),
         spot = "ended" =>
           \/ where[o] \in {"idle", "probing"}
           \/ where[o] = "closing" /\ \A s \in Service : Services!Alive(o, s) => s \notin todo[o]
  PROVE  ServicesInv'
<1>1. /\ ServicesType' /\ where'[o] = spot /\ todo'[o] = rest /\ Apart(o)
  BY DEF ServicesInv, ServicesType, Apart, Services!Moves
<1>2. Started(o) /\ Stopped(o) BY DEF ServicesInv
<1>3. Started(o)' BY <1>1, <1>2 DEF Started
<1>4. Stopped(o)' BY <1>1, <1>2 DEF Stopped, Started, Told, Services!Alive
<1> QED BY <1>1, <1>3, <1>4, ServicesFrame DEF Services!NeverTwice, ServicesInv

\* A process is started where none lives.
LEMMA ServicesStarting ==
  ASSUME ServicesInv, NEW o \in Owners, NEW s \in Service, Services!Starts(o, s), ~Services!Alive(o, s),
         NEW spot, NEW rest \in SUBSET Service, Services!Moves(o, spot, rest),
         UNCHANGED <<kind, again, stray, stuck>>,
         \/ spot = "waiting"
         \/ spot = "spawning" /\ where[o] = "spawning" /\ rest = todo[o] \ {s}
  PROVE  ServicesInv'
<1> USE DEF ServicesInv
<1>1. /\ child' = [child EXCEPT ![o][s] = "booting"] /\ signal' = [signal EXCEPT ![o][s] = "none"]
      /\ where' = [where EXCEPT ![o] = spot] /\ todo' = [todo EXCEPT ![o] = rest]
  BY DEF Services!Starts, Services!Moves
<1> HIDE DEF ServicesInv
<1>a. Services!NeverTwice' BY Zenon DEF Services!Starts, Services!NeverTwice, ServicesInv
<1> USE DEF ServicesInv
<1>2. ServicesType' /\ Apart(o) /\ where'[o] = spot /\ todo'[o] = rest
  BY <1>1 DEF ServicesType, Apart
<1>3. \A r \in Service : r # s => child'[o][r] = child[o][r]
  BY <1>1 DEF ServicesType
<1>4. Started(o)' BY <1>2, <1>3 DEF Started, ServicesType
<1>5. Stopped(o)' BY <1>2 DEF Stopped
<1> QED BY <1>a, <1>2, <1>4, <1>5, ServicesFrame

\* A process exits, or begins to serve, or is told to stop.
LEMMA ServicesFading ==
  ASSUME ServicesInv, NEW o \in Owners, NEW s \in Service,
         UNCHANGED <<kind, where, todo, again, stray, stuck, doubled>>,
         NEW next \in {"serving", "exited"}, NEW sent \in {"terminate", "kill"},
         \/ child' = [child EXCEPT ![o][s] = next] /\ signal' = signal /\ Services!Alive(o, s)
         \/ signal' = [signal EXCEPT ![o][s] = sent] /\ child' = child
  PROVE  ServicesInv'
<1> USE DEF ServicesInv
<1>1. ServicesType' /\ Apart(o)
  <2>1. CASE child' = [child EXCEPT ![o][s] = next] /\ signal' = signal
    BY <2>1 DEF ServicesType, Apart
  <2>2. CASE signal' = [signal EXCEPT ![o][s] = sent] /\ child' = child
    BY <2>2 DEF ServicesType, Apart
  <2> QED BY <2>1, <2>2
<1>2. \A r \in Service :
        /\ child[o][r] = "none" => child'[o][r] = "none"
        /\ Services!Alive(o, r)' => Services!Alive(o, r)
        /\ Told(o, r) => Told(o, r)'
  BY <1>1 DEF ServicesType, Services!Alive, Told
<1>3. Started(o)' BY <1>2 DEF Started, ServicesType
<1>4. Stopped(o)' BY <1>2 DEF Stopped, ServicesType
<1> QED BY <1>1, <1>3, <1>4, ServicesFrame DEF Services!NeverTwice

LEMMA ServicesNext == ServicesInv /\ [Services!Next]_Services!vars => ServicesInv'
<1> SUFFICES ASSUME ServicesInv, [Services!Next]_Services!vars PROVE ServicesInv'
  OBVIOUS
<1> USE DEF Services!history, Services!resting
<1>0. ASSUME NEW o \in Owners
      PROVE  /\ again[o] \in Service \cup {"none"} /\ todo[o] \subseteq Service
             /\ again \in [Owners -> Service \cup {"none"}]
             /\ Started(o) /\ Stopped(o) /\ stuck \in [Owners -> BOOLEAN]
  BY DEF ServicesInv, ServicesType
<1>1. CASE UNCHANGED Services!vars
  BY <1>1 DEF Services!vars, ServicesInv, ServicesType, Started, Stopped, Told, Services!Alive, Services!NeverTwice
<1>2. ASSUME NEW o \in Owners, Services!Enter(o) PROVE ServicesInv'
  <2>1. PICK spot \in {"probing", "spawning"} : Services!Moves(o, spot, Service)
    BY <1>2 DEF Services!Enter
  <2> QED BY <1>0, <1>2, <2>1, ServicesMoving DEF Services!Enter
<1>3. ASSUME NEW o \in Owners, Services!Probe(o) PROVE ServicesInv'
  <2>1. PICK spot \in {"probing", "spawning", "ended"}, rest \in SUBSET Service : Services!Moves(o, spot, rest)
    BY <1>0, <1>3 DEF Services!Probe
  <2> QED BY <1>0, <1>3, <2>1, ServicesMoving DEF Services!Probe
<1>4. ASSUME NEW o \in Owners, Services!Spawn(o) PROVE ServicesInv'
  <2>1. CASE Services!Moves(o, "waiting", Service) /\ UNCHANGED <<again, child, signal, doubled>>
    BY <1>0, <1>4, <2>1, ServicesMoving DEF Services!Spawn
  <2>2. CASE Services!Closes(o) /\ UNCHANGED <<child, doubled>>
    BY <1>0, <1>4, <2>2, ServicesClosing DEF Services!Spawn
  <2>3. ASSUME NEW s \in Service, Services!Turn(o, s), Services!Starts(o, s),
               Services!Moves(o, "spawning", todo[o] \ {s}), UNCHANGED again
        PROVE  ServicesInv'
    <3>1. ~Services!Alive(o, s)
      BY <1>0, <1>4, <2>3 DEF Services!Spawn, Services!Turn, Started, Services!Alive
    <3>2. where[o] = "spawning" /\ UNCHANGED <<kind, stray, stuck>> BY <1>4 DEF Services!Spawn
    <3>3. todo[o] \ {s} \in SUBSET Service BY <1>0
    <3> QED BY <2>3, <3>1, <3>2, <3>3, ServicesStarting
  <2> QED BY <1>4, <2>1, <2>2, <2>3 DEF Services!Spawn
<1>5. ASSUME NEW o \in Owners, Services!SpawnFails(o) PROVE ServicesInv'
  <2>1. CASE kind[o] = "evaluation"
    <3>1. /\ where' = [where EXCEPT ![o] = "ended"] /\ todo' = [todo EXCEPT ![o] = {}]
          /\ stray' = [stray EXCEPT ![o] = TRUE]
          /\ UNCHANGED <<kind, again, child, signal, stuck, doubled>>
      BY <1>5, <2>1 DEF Services!SpawnFails, Services!Moves
    <3>2. ServicesType' /\ Apart(o) /\ where'[o] = "ended"
      BY <3>1 DEF ServicesInv, ServicesType, Apart
    <3>3. stray'[o] BY <3>1 DEF ServicesInv, ServicesType
    <3>4. Started(o)' /\ Stopped(o)' BY <3>2, <3>3 DEF Started, Stopped
    <3> QED BY <3>1, <3>2, <3>4, ServicesFrame DEF ServicesInv, Services!NeverTwice
  <2>2. CASE kind[o] # "evaluation"
    BY <1>0, <1>5, <2>2, ServicesClosing DEF Services!SpawnFails
  <2> QED BY <2>1, <2>2
<1>6. ASSUME NEW o \in Owners, NEW s \in Service, Services!Answered(o, s) PROVE ServicesInv'
  <2>1. todo[o] \ {s} \in SUBSET Service BY <1>0
  <2> QED BY <1>0, <1>6, <2>1, ServicesMoving DEF Services!Answered
<1>7. ASSUME NEW o \in Owners, Services!Ready(o) PROVE ServicesInv'
  <2>1. /\ again' \in [Owners -> Service \cup {"none"}]
        /\ \A x \in Owners : x # o => again'[x] = again[x]
    BY <1>0, <1>7 DEF Services!Ready
  <2> QED BY <1>7, <2>1, ServicesMoving DEF Services!Ready
<1>8. ASSUME NEW o \in Owners, Services!Despair(o) \/ Services!Leave(o) PROVE ServicesInv'
  BY <1>0, <1>8, ServicesClosing DEF Services!Despair, Services!Leave
<1>9. ASSUME NEW o \in Owners, Services!Refuse(o) PROVE ServicesInv'
  <2>1. CASE where[o] = "idle"
    BY <1>0, <1>9, <2>1, ServicesMoving DEF Services!Refuse
  <2>2. CASE where[o] = "running"
    BY <1>0, <1>9, <2>2, ServicesClosing DEF Services!Refuse
  <2> QED BY <1>9, <2>1, <2>2 DEF Services!Refuse
<1>10. ASSUME NEW o \in Owners, NEW s \in Service, Services!Restart(o, s) PROVE ServicesInv'
  <2>1. /\ again' \in [Owners -> Service \cup {"none"}] /\ again'[o] = s
        /\ \A x \in Owners : x # o => again'[x] = again[x]
    BY <1>0, <1>10 DEF Services!Restart
  <2> QED BY <1>10, <2>1, ServicesMoving DEF Services!Restart
<1>11. ASSUME NEW o \in Owners, NEW s \in Service, Services!Terminate(o, s) \/ Services!Kill(o, s)
       PROVE  ServicesInv'
  BY <1>11, ServicesFading DEF Services!Terminate, Services!Kill
<1>12. ASSUME NEW o \in Owners, NEW s \in Service, Services!Stuck(o, s) PROVE ServicesInv'
  <2>0. stuck' = [stuck EXCEPT ![o] = TRUE] BY <1>12 DEF Services!Stuck
  <2>1. /\ stuck' \in [Owners -> BOOLEAN] /\ stuck'[o]
        /\ \A x \in Owners : x # o => stuck'[x] = stuck[x]
    BY <1>0, <2>0
  <2>2. CASE where[o] = "stopping"
    BY <1>12, <2>1, <2>2, ServicesClosing DEF Services!Stuck
  <2>3. CASE where[o] # "stopping"
    <3>1. /\ where[o] = "closing"
          /\ where' = [where EXCEPT ![o] = "ended"] /\ todo' = [todo EXCEPT ![o] = {}]
          /\ UNCHANGED <<kind, again, child, signal, stray, doubled>>
      BY <1>12, <2>3 DEF Services!Stuck, Services!Stopping, Services!Moves
    <3>2. ServicesType' /\ Apart(o) /\ where'[o] = "ended"
      BY <2>1, <3>1 DEF ServicesInv, ServicesType, Apart
    <3>3. Started(o)' BY <3>2 DEF Started
    <3>a. \A s1 \in Service : Services!Alive(o, s1)' => Told(o, s1)'
      BY <1>0, <3>1 DEF Stopped, Told, Services!Alive
    <3>4. Stopped(o)' BY Zenon, <2>1, <3>a, <3>2 DEF Stopped
    <3> QED BY <3>1, <3>2, <3>3, <3>4, ServicesFrame DEF ServicesInv, Services!NeverTwice
  <2> QED BY <2>2, <2>3
<1>13. ASSUME NEW o \in Owners, Services!Stopped(o) PROVE ServicesInv'
  <2>1. where[o] = "closing" /\ UNCHANGED <<kind, again, child, signal, stray, stuck, doubled>>
    BY <1>13 DEF Services!Stopped
  <2>2. CASE todo[o] = {} /\ Services!Moves(o, "ended", {})
    BY <1>0, <2>1, <2>2, ServicesMoving
  <2>3. ASSUME NEW s \in Service, ~Services!Alive(o, s), Services!Moves(o, "closing", todo[o] \ {s})
        PROVE  ServicesInv'
    <3>1. todo[o] \ {s} \in SUBSET Service BY <1>0
    <3> QED BY <1>0, <2>1, <2>3, <3>1, ServicesMoving
  <2> QED BY <1>13, <2>2, <2>3 DEF Services!Stopped
<1>14. ASSUME NEW o \in Owners, Services!Respawn(o) PROVE ServicesInv'
  <2>1. again[o] \in Service BY <1>0, <1>14 DEF Services!Respawn, Started
  <2>2. CASE Services!Closes(o) /\ UNCHANGED <<child, doubled>>
    BY <1>0, <1>14, <2>2, ServicesClosing DEF Services!Respawn
  <2>3. CASE Services!Starts(o, again[o]) /\ Services!Moves(o, "waiting", {again[o]}) /\ UNCHANGED again
    BY <1>14, <2>1, <2>3, ServicesStarting DEF Services!Respawn
  <2> QED BY <1>14, <2>2, <2>3 DEF Services!Respawn
<1>15. ASSUME NEW o \in Owners, Services!RespawnFails(o) PROVE ServicesInv'
  BY <1>0, <1>15, ServicesClosing DEF Services!RespawnFails
<1>16. ASSUME NEW o \in Owners, NEW s \in Service,
              Services!Boots(o, s) \/ Services!Obeys(o, s) \/ Services!Crashes(o, s)
       PROVE  ServicesInv'
  <2>1. PICK next \in {"serving", "exited"} : child' = [child EXCEPT ![o][s] = next]
    BY <1>16 DEF Services!Boots, Services!Obeys, Services!Crashes, Services!Becomes
  <2>2. /\ Services!Alive(o, s)
        /\ UNCHANGED <<kind, where, todo, again, signal, stray, stuck, doubled>>
    BY <1>16 DEF Services!Boots, Services!Obeys, Services!Crashes, Services!Alive
  <2> QED BY <2>1, <2>2, ServicesFading
<1> QED
  BY <1>1, <1>2, <1>3, <1>4, <1>5, <1>6, <1>7, <1>8, <1>9, <1>10, <1>11, <1>12, <1>13, <1>14, <1>15, <1>16
  DEF Services!Next

LEMMA ServicesSafe == ServicesInv => Services!NothingLeft /\ Services!NeverTwice
BY DEF ServicesInv, Stopped, Told, Services!NothingLeft

(* However a start or a restart fails, an owner of services that has ended   *)
(* leaves none running, but where its start was unguarded or a killed        *)
(* process outlived its wait; and none is started beside a living one.       *)
THEOREM ServicesEnd == Services!Spec => [](Services!NothingLeft /\ Services!NeverTwice)
BY ServicesSafe, ServicesInit, ServicesNext, PTL DEF Services!Spec

-----------------------------------------------------------------------------
(* ReleaseArtifact: what verify() accepts was built.                         *)
WorkerType ==
  [at : {"idle", "building", "installing", "verified"}, from : Place \cup {Nil}, to : Place \cup {Nil},
   left : SUBSET (File \cup {Releases!Manifest}), stage : Releases!Release]

ReleasesType ==
  /\ checkout \in [File -> Content]
  /\ place \in [Place -> Releases!Release \cup {Nil}]
  /\ worker \in [Worker -> WorkerType]
  /\ staged \subseteq Releases!Files
  /\ appeared \in [Place -> Releases!Release \cup {Nil}]

\* A release.json anywhere was written by a build, for files it had staged.
Written(release) == release.manifest \in staged \cup {Nil}
PlaceKnown(p) == place[p] # Nil => Written(place[p])
WorkerKnown(w) ==
  /\ Written(worker[w].stage)
  /\ worker[w].at = "verified" => Releases!Verifies(worker[w].stage)
  /\ worker[w].at = "installing" => worker[w].from \in Place
  /\ worker[w].at # "idle" => worker[w].to \in Place
Appeared(p) ==
  appeared[p] # Nil => Releases!Verifies(appeared[p]) /\ appeared[p].files \in staged

ReleasesInv ==
  /\ ReleasesType
  /\ \A p \in Place : PlaceKnown(p) /\ Appeared(p)
  /\ \A w \in Worker : WorkerKnown(w)

LEMMA ReleaseShapes ==
  /\ Releases!Empty \in Releases!Files
  /\ Releases!Nothing \in Releases!Release /\ Releases!Nothing.manifest = Nil
  /\ Releases!Idle \in WorkerType /\ Releases!Idle.stage = Releases!Nothing
  /\ Releases!Idle.at = "idle"
<1>1. Releases!Empty \in Releases!Files BY DEF Releases!Empty, Releases!Files
<1>2. Releases!Nothing \in Releases!Release /\ Releases!Nothing.manifest = Nil
  BY <1>1 DEF Releases!Nothing, Releases!Release
<1> QED BY <1>1, <1>2 DEF Releases!Idle, WorkerType

LEMMA ReleasesInit == Releases!Init => ReleasesInv
BY ReleaseShapes, Zenon DEF Releases!Init, ReleasesInv, ReleasesType, PlaceKnown, Appeared, WorkerKnown, Written

\* One worker goes on to a state whose manifest is known.
LEMMA WorkerMoves ==
  ASSUME ReleasesInv, NEW w \in Worker, NEW next \in WorkerType, Releases!Becomes(w, next),
         UNCHANGED <<checkout, place, staged, appeared>>,
         Written(next.stage),
         next.at = "verified" => Releases!Verifies(next.stage),
         next.at = "installing" => next.from \in Place,
         next.at # "idle" => next.to \in Place
  PROVE  ReleasesInv'
<1>1. /\ worker' \in [Worker -> WorkerType] /\ worker'[w] = next
      /\ \A x \in Worker : x # w => worker'[x] = worker[x]
  BY DEF Releases!Becomes, ReleasesInv, ReleasesType
<1>2. ReleasesType' BY <1>1 DEF ReleasesInv, ReleasesType
<1>3. \A x \in Worker : WorkerKnown(x)' BY <1>1 DEF ReleasesInv, WorkerKnown, Written
<1>4. \A p \in Place : PlaceKnown(p)' /\ Appeared(p)' BY DEF ReleasesInv, PlaceKnown, Appeared, Written
<1> QED BY <1>2, <1>3, <1>4 DEF ReleasesInv

LEMMA WorkerStops ==
  ASSUME ReleasesInv, NEW w \in Worker, Releases!Becomes(w, Releases!Idle),
         UNCHANGED <<checkout, place, staged, appeared>>
  PROVE  ReleasesInv'
BY WorkerMoves, ReleaseShapes, Zenon DEF Written

\* The owner changes a release, but writes no release.json.
LEMMA PlaceChanges ==
  ASSUME ReleasesInv, UNCHANGED <<worker, staged, appeared>>, checkout' \in [File -> Content],
         place' \in [Place -> Releases!Release \cup {Nil}],
         \A p \in Place : place'[p] # Nil => Written(place'[p])
  PROVE  ReleasesInv'
BY DEF ReleasesInv, ReleasesType, PlaceKnown, Appeared, WorkerKnown, Written

LEMMA ReleasesNext == ReleasesInv /\ [Releases!Next]_Releases!vars => ReleasesInv'
<1> SUFFICES ASSUME ReleasesInv, [Releases!Next]_Releases!vars PROVE ReleasesInv'
  OBVIOUS
<1>0. ASSUME NEW w \in Worker
      PROVE  /\ worker[w] \in WorkerType /\ WorkerKnown(w)
             /\ worker[w].stage \in Releases!Release /\ worker[w].stage.files \in Releases!Files
  BY DEF ReleasesInv, ReleasesType, WorkerType, Releases!Release
<1>1. CASE UNCHANGED Releases!vars
  BY <1>1 DEF Releases!vars, ReleasesInv, ReleasesType, PlaceKnown, Appeared, WorkerKnown, Written
<1>2. ASSUME NEW w \in Worker, NEW p \in Place, Releases!BuildStart(w, p) PROVE ReleasesInv'
  <2> DEFINE next == [Releases!Idle EXCEPT !.at = "building", !.to = p, !.left = File]
  <2>1. /\ next \in WorkerType /\ next.stage = Releases!Nothing /\ next.at = "building" /\ next.to = p
    BY ReleaseShapes DEF WorkerType, Releases!Idle
  <2>2. Releases!Becomes(w, next) /\ UNCHANGED <<checkout, place, staged, appeared>>
    BY <1>2 DEF Releases!BuildStart
  <2> HIDE DEF next
  <2>3. Written(next.stage) BY <2>1, ReleaseShapes DEF Written
  <2> QED BY <2>1, <2>2, <2>3, WorkerMoves
<1>3. ASSUME NEW w \in Worker, NEW p \in Place, NEW q \in Place, Releases!InstallStart(w, p, q)
      PROVE  ReleasesInv'
  <2> DEFINE next == [Releases!Idle EXCEPT !.at = "installing", !.from = p, !.to = q,
                                            !.left = File \cup {Releases!Manifest}]
  <2>1. /\ next \in WorkerType /\ next.stage = Releases!Nothing /\ next.at = "installing"
        /\ next.from = p /\ next.to = q
    BY ReleaseShapes DEF WorkerType, Releases!Idle
  <2>2. Releases!Becomes(w, next) /\ UNCHANGED <<checkout, place, staged, appeared>>
    BY <1>3 DEF Releases!InstallStart
  <2> HIDE DEF next
  <2>3. Written(next.stage) BY <2>1, ReleaseShapes DEF Written
  <2> QED BY <2>1, <2>2, <2>3, WorkerMoves
<1>4. ASSUME NEW w \in Worker, NEW f \in File, Releases!BuildCopy(w, f) PROVE ReleasesInv'
  <2> DEFINE next == [worker[w] EXCEPT !.stage.files[f] = checkout[f], !.left = @ \ {f}]
  <2>1. next \in WorkerType /\ next.stage.manifest = worker[w].stage.manifest /\ next.at = worker[w].at
        /\ next.to = worker[w].to
    <3>1. checkout[f] \in Content \cup {Nil} BY DEF ReleasesInv, ReleasesType
    <3> QED BY <1>0, <3>1 DEF WorkerType, Releases!Release, Releases!Files
  <2>2. /\ Releases!Becomes(w, next) /\ UNCHANGED <<checkout, place, staged, appeared>>
        /\ worker[w].at = "building"
    BY <1>4 DEF Releases!BuildCopy
  <2> HIDE DEF next
  <2>3. Written(next.stage) BY <1>0, <2>1 DEF Written, WorkerKnown
  <2> QED BY <1>0, <2>1, <2>2, <2>3, WorkerMoves DEF WorkerKnown
<1>5. ASSUME NEW w \in Worker, NEW f \in File \cup {Releases!Manifest}, Releases!InstallCopy(w, f)
      PROVE  ReleasesInv'
  <2> DEFINE source == place[worker[w].from]
  <2>1. /\ worker[w].at = "installing" /\ UNCHANGED <<checkout, place, staged, appeared>>
        /\ source # Nil => source \in Releases!Release /\ Written(source)
    BY <1>0, <1>5 DEF Releases!InstallCopy, WorkerKnown, ReleasesInv, ReleasesType, PlaceKnown
  <2>2. CASE source = Nil
    <3>1. Releases!Becomes(w, Releases!Idle) BY <1>5, <2>2 DEF Releases!InstallCopy
    <3> QED BY <2>1, <3>1, WorkerStops
  <2>3. CASE source # Nil /\ f = Releases!Manifest
    <3> DEFINE next == [worker[w] EXCEPT !.stage.manifest = source.manifest, !.left = @ \ {f}]
    <3>1. /\ next \in WorkerType /\ next.stage.manifest = source.manifest /\ next.at = worker[w].at
          /\ next.to = worker[w].to /\ next.from = worker[w].from
      BY <1>0, <2>1, <2>3 DEF WorkerType, Releases!Release
    <3>2. Releases!Becomes(w, next) BY <1>5, <2>3 DEF Releases!InstallCopy
    <3> HIDE DEF next, source
    <3>3. Written(next.stage) BY <2>1, <2>3, <3>1 DEF Written
    <3> QED BY <1>0, <2>1, <3>1, <3>2, <3>3, WorkerMoves DEF WorkerKnown
  <2>4. CASE source # Nil /\ f # Releases!Manifest
    <3> DEFINE next == [worker[w] EXCEPT !.stage.files[f] = source.files[f], !.left = @ \ {f}]
    <3>0. f \in File /\ source.files[f] \in Content \cup {Nil}
      BY <2>1, <2>4 DEF Releases!Release, Releases!Files
    <3>1. /\ next \in WorkerType /\ next.stage.manifest = worker[w].stage.manifest
          /\ next.at = worker[w].at /\ next.to = worker[w].to /\ next.from = worker[w].from
      BY <1>0, <3>0 DEF WorkerType, Releases!Release, Releases!Files
    <3>2. Releases!Becomes(w, next) BY <1>5, <2>4 DEF Releases!InstallCopy
    <3> HIDE DEF next, source
    <3>3. Written(next.stage) BY <1>0, <3>1 DEF Written, WorkerKnown
    <3> QED BY <1>0, <2>1, <3>1, <3>2, <3>3, WorkerMoves DEF WorkerKnown
  <2> QED BY <2>2, <2>3, <2>4
<1>6. ASSUME NEW w \in Worker, Releases!WriteManifest(w) PROVE ReleasesInv'
  <2> DEFINE files == worker[w].stage.files
             next == [worker[w] EXCEPT !.stage.manifest = files]
  <2>1. /\ worker' = [worker EXCEPT ![w] = next] /\ staged' = staged \cup {files}
        /\ UNCHANGED <<checkout, place, appeared>> /\ worker[w].at = "building"
    BY <1>6 DEF Releases!WriteManifest, Releases!Becomes
  <2>2. /\ next \in WorkerType /\ next.stage.manifest = files /\ next.at = worker[w].at
        /\ next.to = worker[w].to /\ files \in Releases!Files
    BY <1>0 DEF WorkerType, Releases!Release
  <2> HIDE DEF next, files
  <2>3. /\ worker' \in [Worker -> WorkerType] /\ worker'[w] = next
        /\ \A x \in Worker : x # w => worker'[x] = worker[x]
    BY <2>1, <2>2 DEF ReleasesInv, ReleasesType
  <2>4. ReleasesType' BY <2>1, <2>2, <2>3 DEF ReleasesInv, ReleasesType
  <2>5. \A x \in Worker : WorkerKnown(x)'
    BY <1>0, <2>1, <2>2, <2>3 DEF ReleasesInv, WorkerKnown, Written
  <2>6. \A p \in Place : PlaceKnown(p)' /\ Appeared(p)'
    BY <2>1 DEF ReleasesInv, PlaceKnown, Appeared, Written
  <2> QED BY <2>4, <2>5, <2>6 DEF ReleasesInv
<1>7. ASSUME NEW w \in Worker, Releases!VerifyStage(w) PROVE ReleasesInv'
  <2>0. UNCHANGED <<checkout, place, staged, appeared>> /\ worker[w].at \in {"building", "installing"}
    BY <1>7 DEF Releases!VerifyStage
  <2>1. CASE Releases!Verifies(worker[w].stage)
    <3> DEFINE next == [worker[w] EXCEPT !.at = "verified"]
    <3>1. /\ next \in WorkerType /\ next.stage = worker[w].stage /\ next.at = "verified"
          /\ next.to = worker[w].to
      BY <1>0 DEF WorkerType
    <3>2. Releases!Becomes(w, next) BY <1>7, <2>1 DEF Releases!VerifyStage
    <3> HIDE DEF next
    <3> QED BY <1>0, <2>0, <2>1, <3>1, <3>2, WorkerMoves DEF WorkerKnown
  <2>2. CASE ~Releases!Verifies(worker[w].stage)
    <3>1. Releases!Becomes(w, Releases!Idle) BY <1>7, <2>2 DEF Releases!VerifyStage
    <3> QED BY <2>0, <3>1, WorkerStops
  <2> QED BY <2>1, <2>2
<1>8. ASSUME NEW w \in Worker, Releases!Publish(w) PROVE ReleasesInv'
  <2> DEFINE p == worker[w].to  copy == worker[w].stage
  <2>1. /\ Releases!Becomes(w, Releases!Idle) /\ UNCHANGED <<checkout, staged>>
        /\ p \in Place /\ copy \in Releases!Release /\ Written(copy) /\ Releases!Verifies(copy)
    BY <1>0, <1>8 DEF Releases!Publish, WorkerKnown
  <2>2. CASE place[p] # Nil
    <3>1. UNCHANGED <<place, appeared>> BY <1>8, <2>2 DEF Releases!Publish
    <3> QED BY <2>1, <3>1, WorkerStops
  <2>3. CASE place[p] = Nil
    <3>1. place' = [place EXCEPT ![p] = copy] /\ appeared' = [appeared EXCEPT ![p] = copy]
      BY <1>8, <2>3 DEF Releases!Publish
    <3>2. copy.files \in staged BY <2>1 DEF Written, Releases!Verifies
    <3> HIDE DEF p, copy
    <3>3. /\ worker' \in [Worker -> WorkerType] /\ worker'[w] = Releases!Idle
          /\ \A x \in Worker : x # w => worker'[x] = worker[x]
      BY <2>1, ReleaseShapes DEF Releases!Becomes, ReleasesInv, ReleasesType
    <3>4. \A x \in Worker : WorkerKnown(x)'
      BY <2>1, <3>3, ReleaseShapes DEF ReleasesInv, WorkerKnown, Written
    <3>5. ReleasesType' BY <2>1, <3>1, <3>3 DEF ReleasesInv, ReleasesType
    <3>6. \A q \in Place : PlaceKnown(q)'
      BY <2>1, <3>1 DEF ReleasesInv, ReleasesType, PlaceKnown, Written
    <3>7. \A q \in Place : Appeared(q)'
      BY <2>1, <3>1, <3>2 DEF ReleasesInv, ReleasesType, Appeared
    <3> QED BY <3>4, <3>5, <3>6, <3>7 DEF ReleasesInv
  <2> QED BY <2>2, <2>3
<1>9. ASSUME NEW w \in Worker, Releases!Fail(w) PROVE ReleasesInv'
  BY <1>9, WorkerStops DEF Releases!Fail
<1>10. ASSUME NEW f \in File, NEW c \in Content, Releases!Edit(f, c) PROVE ReleasesInv'
  BY <1>10, PlaceChanges DEF Releases!Edit, ReleasesInv, ReleasesType, PlaceKnown
<1>11. ASSUME NEW p \in Place, Releases!LoseManifest(p) \/ Releases!Remove(p) PROVE ReleasesInv'
  <2>1. PICK release \in Releases!Release \cup {Nil} :
          /\ place' = [place EXCEPT ![p] = release]
          /\ release # Nil => Written(release)
    <3>1. place[p] \in Releases!Release \/ place[p] = Nil BY DEF ReleasesInv, ReleasesType
    <3>2. CASE Releases!Remove(p) BY <3>2 DEF Releases!Remove
    <3>3. CASE Releases!LoseManifest(p)
      <4>1. place' = [place EXCEPT ![p] = [place[p] EXCEPT !.manifest = Nil]] /\ place[p] # Nil
        BY <3>3 DEF Releases!LoseManifest, ReleasesInv, ReleasesType
      <4>2. [place[p] EXCEPT !.manifest = Nil] \in Releases!Release /\ Written([place[p] EXCEPT !.manifest = Nil])
        BY <3>1, <4>1 DEF Releases!Release, Written
      <4> QED BY <4>1, <4>2
    <3> QED BY <1>11, <3>2, <3>3
  <2>2. UNCHANGED <<checkout, worker, staged, appeared>>
    BY <1>11 DEF Releases!LoseManifest, Releases!Remove
  <2> QED BY <2>1, <2>2, PlaceChanges DEF ReleasesInv, ReleasesType, PlaceKnown
<1>12. ASSUME NEW p \in Place, NEW f \in File, NEW c \in Content \cup {Nil}, Releases!Damage(p, f, c)
       PROVE  ReleasesInv'
  <2> DEFINE release == [place[p] EXCEPT !.files[f] = c]
  <2>1. place' = [place EXCEPT ![p] = release] /\ place[p] # Nil
        /\ UNCHANGED <<checkout, worker, staged, appeared>>
    BY <1>12 DEF Releases!Damage, ReleasesInv, ReleasesType
  <2>2. place[p] \in Releases!Release /\ Written(place[p]) BY <2>1 DEF ReleasesInv, ReleasesType, PlaceKnown
  <2>3. release \in Releases!Release /\ release.manifest = place[p].manifest
    BY <2>2 DEF Releases!Release, Releases!Files
  <2>4. Written(release) BY <2>2, <2>3 DEF Written
  <2> HIDE DEF release
  <2> QED BY <2>1, <2>3, <2>4, PlaceChanges DEF ReleasesInv, ReleasesType, PlaceKnown
<1> QED
  BY <1>1, <1>2, <1>3, <1>4, <1>5, <1>6, <1>7, <1>8, <1>9, <1>10, <1>11, <1>12 DEF Releases!Next

LEMMA ReleasesSafe == ReleasesInv => Releases!AppearsWhole /\ Releases!AcceptedWasBuilt
<1>1. ReleasesInv => Releases!AppearsWhole BY DEF ReleasesInv, Appeared, Releases!AppearsWhole
<1>2. ReleasesInv => Releases!AcceptedWasBuilt
  BY DEF ReleasesInv, Appeared, PlaceKnown, Written, Releases!Verifies, Releases!AcceptedWasBuilt
<1> QED BY <1>1, <1>2

(* However releases are built and installed at once, and whatever becomes of *)
(* the checkout and of the releases meanwhile: each is whole when it         *)
(* appears, and what verify() accepts, then or later, is what a build made.  *)
THEOREM AcceptedIsBuilt == Releases!Spec => [](Releases!AppearsWhole /\ Releases!AcceptedWasBuilt)
BY ReleasesSafe, ReleasesInit, ReleasesNext, PTL DEF Releases!Spec

-----------------------------------------------------------------------------
(* LambdaPackage: what a retained digest stands for.                         *)
\* One entry for each path; and all that the wheels merged so far hold.
Single(entries) == \A e, f \in entries : e.name = f.name => e = f
Bears(D, entries) ==
  \A d \in D : \A n \in wheel[d].names \ {Script} : [name |-> n, from |-> d] \in entries

\* What was followed is what every closed set of distributions holds.
FollowInv ==
  /\ following \subseteq Dist /\ reached \subseteq Dist
  /\ \A S \in SUBSET Dist : Package!Closed(S) => following \cup reached \subseteq S
  /\ \A d \in reached : \A n \in Package!Applying(d) : n.fits /\ n.to \in following \cup reached
  /\ stage \in {"merging", "assembled", "writing"} => Roots \subseteq following \cup reached

FilesInv ==
  /\ merged \subseteq Dist /\ Single(packed) /\ Bears(merged, packed)
  /\ stage \in {"assembled", "writing"} =>
       /\ merged = Dist /\ reached = Dist /\ following = {}
       /\ Sources \cup Own \subseteq Package!Names(packed)
  /\ stage = "writing" => Package!Verifies(packed)

\* An archive whose digest is kept, and what was found of the wheels then.
Sound(entries) ==
  /\ Single(entries) /\ Bears(Dist, entries) /\ Package!Verifies(entries)
  /\ Sources \cup Own \subseteq Package!Names(entries)
Complete ==
  /\ \A d \in Dist : \A n \in Package!Applying(d) : n.fits
  /\ \A S \in SUBSET Dist : Package!Closed(S) <=> S = Dist

PackageInv ==
  /\ FollowInv /\ FilesInv
  /\ \A entries \in retained : Sound(entries) /\ Complete

LEMMA PackageInit == Package!Init => PackageInv
BY SMTT(30) DEF Package!Init, PackageInv, FollowInv, FilesInv, Single, Bears

LEMMA WheelsStay ==
  ASSUME wheel' = wheel
  PROVE  /\ \A d : Package!Applying(d)' = Package!Applying(d)
         /\ \A S : Package!Closed(S)' = Package!Closed(S)
         /\ \A entries : Sound(entries)' = Sound(entries)
         /\ Complete' = Complete
         /\ \A D, entries : Bears(D, entries)' = Bears(D, entries)
BY DEF Package!Applying, Package!Closed, Sound, Complete, Bears, Package!Verifies, Package!Names,
  Single, Package!Members, Package!Directories, Package!Parents, Package!Distinct

\* All was reached: the distributions are what the roots need, and no more.
LEMMA ReachedAll ==
  ASSUME FollowInv, Roots \subseteq Dist, reached = Dist, following = {}
  PROVE  Complete
<1>1. Package!Closed(Dist) BY DEF FollowInv, Package!Closed
<1>2. \A S \in SUBSET Dist : Package!Closed(S) => S = Dist BY DEF FollowInv
<1> QED BY <1>1, <1>2 DEF Complete, FollowInv

\* A build that ends, and what leaves the archives that are kept.
LEMMA Refused ==
  ASSUME PackageInv, stage' = "refused", UNCHANGED <<wheel, merged, packed, following, reached, retained>>
  PROVE  PackageInv'
<1>1. FollowInv' BY WheelsStay DEF PackageInv, FollowInv
<1>2. FilesInv' BY WheelsStay DEF PackageInv, FilesInv, Single
<1> QED BY <1>1, <1>2, WheelsStay DEF PackageInv

LEMMA PackageNext ==
  ASSUME Roots \subseteq Dist, PackageInv, [Package!Next]_Package!vars
  PROVE  PackageInv'
<1>1. CASE UNCHANGED Package!vars
  <2>1. UNCHANGED <<wheel, stage, merged, packed, following, reached, retained>>
    BY <1>1 DEF Package!vars
  <2>2. FollowInv' BY <2>1, WheelsStay DEF PackageInv, FollowInv
  <2>3. FilesInv' BY <2>1, WheelsStay DEF PackageInv, FilesInv, Single, Package!Verifies, Package!Names,
          Package!Members, Package!Directories, Package!Parents, Package!Distinct
  <2> QED BY <2>1, <2>2, <2>3, WheelsStay DEF PackageInv
<1>2. CASE Package!Start
  <2>1. /\ merged' = {} /\ packed' = {} /\ following' = Roots /\ reached' = {}
        /\ stage' \in {"merging", "refused"} /\ UNCHANGED <<wheel, retained>>
    BY <1>2 DEF Package!Start
  <2>2. FollowInv' BY <2>1, WheelsStay DEF FollowInv, Package!Closed
  <2>3. FilesInv' BY <2>1 DEF FilesInv, Single, Bears
  <2> QED BY <2>1, <2>2, <2>3, WheelsStay DEF PackageInv
<1>3. CASE Package!Merge
  <2> DEFINE d == CHOOSE d \in Dist : d \notin merged
             names == wheel[d].names \ {Script}
             more == {[name |-> n, from |-> d] : n \in names}
  <2>0. UNCHANGED <<wheel, retained>> /\ d \in Dist /\ stage = "merging"
    BY <1>3 DEF Package!Merge, PackageInv, FilesInv
  <2>1. CASE Package!Refuses
    BY <1>3, <2>0, <2>1, Refused DEF Package!Refuses
  <2>2. CASE ~Package!Refuses
    <3>1. /\ packed' = packed \cup more /\ merged' = merged \cup {d}
          /\ UNCHANGED <<stage, following, reached>>
          /\ {Fold(n) : n \in names} \cap {Fold(n) : n \in Package!Names(packed)} = {}
      BY <1>3, <2>2 DEF Package!Merge
    <3> HIDE DEF d
    <3>2. \A e \in packed, f \in more : e.name # f.name
      BY <3>1 DEF Package!Names
    <3>3. \A e, f \in more : e.name = f.name => e = f OBVIOUS
    <3>4. Single(packed') BY <3>1, <3>2, <3>3 DEF Single, PackageInv, FilesInv
    <3>5. Bears(merged', packed') BY <3>1 DEF Bears, PackageInv, FilesInv
    <3>6. FilesInv' BY <2>0, <3>1, <3>4, <3>5, WheelsStay DEF FilesInv, PackageInv, Single
    <3>7. FollowInv' BY <2>0, <3>1, WheelsStay DEF FollowInv, PackageInv
    <3> QED BY <2>0, <3>6, <3>7, WheelsStay DEF PackageInv
  <2> QED BY <2>1, <2>2
<1>4. ASSUME NEW d \in Dist, Package!Follow(d) PROVE PackageInv'
  <2>0. UNCHANGED <<wheel, retained>> /\ d \in following /\ stage = "merging"
    BY <1>4 DEF Package!Follow
  <2>1. CASE Package!Refuses
    BY <1>4, <2>0, <2>1, Refused DEF Package!Refuses
  <2>2. CASE d \in reached
    <3>1. following' = following \ {d} /\ UNCHANGED <<stage, merged, packed, reached>>
      BY <1>4, <2>2 DEF Package!Follow
    <3>2. following' \cup reached' = following \cup reached BY <2>2, <3>1
    <3>3. FollowInv' BY <2>0, <3>1, <3>2, WheelsStay DEF FollowInv, PackageInv
    <3>4. FilesInv' BY <2>0, <3>1, WheelsStay DEF FilesInv, PackageInv, Single
    <3> QED BY <2>0, <3>3, <3>4, WheelsStay DEF PackageInv
  <2>3. CASE d \notin reached /\ ~Package!Refuses
    <3> DEFINE needs == {n.to : n \in Package!Applying(d)}
    <3>1. /\ following' = (following \ {d}) \cup needs /\ reached' = reached \cup {d}
          /\ UNCHANGED <<stage, merged, packed>>
          /\ \A n \in Package!Applying(d) : n.fits /\ n.to \in Dist
      BY <1>4, <2>3 DEF Package!Follow, Package!Fits
    <3>2. \A S \in SUBSET Dist : Package!Closed(S) => following' \cup reached' \subseteq S
      BY <2>0, <3>1 DEF FollowInv, PackageInv, Package!Closed
    <3>3. \A x \in reached' : \A n \in Package!Applying(x) : n.fits /\ n.to \in following' \cup reached'
      BY <2>0, <3>1 DEF FollowInv, PackageInv
    <3>4. FollowInv'
      BY <2>0, <3>1, <3>2, <3>3, WheelsStay DEF FollowInv, PackageInv
    <3>5. FilesInv' BY <2>0, <3>1, WheelsStay DEF FilesInv, PackageInv, Single
    <3> QED BY <2>0, <3>4, <3>5, WheelsStay DEF PackageInv
  <2> QED BY <2>1, <2>2, <2>3
<1>5. CASE Package!Assemble
  <2> DEFINE more == {[name |-> n, from |-> "source"] : n \in Sources \cup Own}
  <2>0. UNCHANGED <<wheel, retained>> /\ stage = "merging" /\ merged = Dist /\ following = {}
    BY <1>5 DEF Package!Assemble
  <2>1. CASE Package!Refuses
    BY <1>5, <2>0, <2>1, Refused DEF Package!Refuses
  <2>2. CASE ~Package!Refuses
    <3>1. /\ packed' = packed \cup more /\ stage' = "assembled" /\ reached = Dist
          /\ UNCHANGED <<merged, following, reached>>
          /\ {Fold(n) : n \in Sources} \cap {Fold(n) : n \in Package!Names(packed)} = {}
          /\ Own \cap (Sources \cup Package!Names(packed)) = {}
      BY <1>5, <2>2 DEF Package!Assemble
    <3>2. \A e \in packed, f \in more : e.name # f.name
      BY <3>1 DEF Package!Names
    <3>3. \A e, f \in more : e.name = f.name => e = f OBVIOUS
    <3>4. Single(packed') BY <3>1, <3>2, <3>3 DEF Single, PackageInv, FilesInv
    <3>5. Bears(merged', packed') BY <3>1 DEF Bears, PackageInv, FilesInv
    <3>6. Sources \cup Own \subseteq Package!Names(packed')
      <4> SUFFICES ASSUME NEW n \in Sources \cup Own PROVE \E e \in packed' : e.name = n
        BY DEF Package!Names
      <4>1. [name |-> n, from |-> "source"] \in packed' BY <3>1
      <4> QED BY <4>1
    <3>7. FilesInv'
      BY <2>0, <3>1, <3>4, <3>5, <3>6, WheelsStay DEF FilesInv, PackageInv, Single, Package!Names
    <3>8. FollowInv' BY <2>0, <3>1, WheelsStay DEF FollowInv, PackageInv
    <3> QED BY <2>0, <3>7, <3>8, WheelsStay DEF PackageInv
  <2> QED BY <2>1, <2>2
<1>6. CASE Package!Open
  <2>0. UNCHANGED <<wheel, retained>> /\ stage = "assembled" BY <1>6 DEF Package!Open
  <2>1. CASE Package!Refuses
    BY <1>6, <2>0, <2>1, Refused DEF Package!Refuses
  <2>2. CASE ~Package!Refuses
    <3>1. stage' = "writing" /\ Package!Verifies(packed) /\ UNCHANGED <<merged, packed, following, reached>>
      BY <1>6, <2>2 DEF Package!Open
    <3>2. Package!Verifies(packed)' BY <3>1 DEF Package!Verifies, Package!Names,
          Package!Members, Package!Directories, Package!Parents, Package!Distinct
    <3>3. Package!Names(packed)' = Package!Names(packed) BY <3>1 DEF Package!Names
    <3>4. FilesInv' BY <2>0, <3>1, <3>2, <3>3, WheelsStay DEF FilesInv, PackageInv, Single
    <3>5. FollowInv' BY <2>0, <3>1, WheelsStay DEF FollowInv, PackageInv
    <3> QED BY <2>0, <3>4, <3>5, WheelsStay DEF PackageInv
  <2> QED BY <2>1, <2>2
<1>7. CASE Package!Write
  <2>1. /\ stage = "writing" /\ stage' = "done" /\ retained' = retained \cup {packed}
        /\ UNCHANGED <<wheel, merged, packed, following, reached>>
    BY <1>7 DEF Package!Write
  <2>2. Sound(packed) BY <2>1 DEF PackageInv, FilesInv, Sound
  <2>3. Complete BY <2>1, ReachedAll DEF PackageInv, FilesInv
  <2>4. FollowInv' BY <2>1, WheelsStay DEF FollowInv, PackageInv
  <2>5. FilesInv' BY <2>1, WheelsStay DEF FilesInv, PackageInv, Single
  <2> QED BY <2>1, <2>2, <2>3, <2>4, <2>5, WheelsStay DEF PackageInv
<1>8. CASE Package!Fail
  BY <1>8, Refused DEF Package!Fail
<1> QED BY <1>1, <1>2, <1>3, <1>4, <1>5, <1>6, <1>7, <1>8 DEF Package!Next

LEMMA PackageSafe == PackageInv => Package!ExtractsWhole /\ Package!HasWhatItNeeds
<1> SUFFICES ASSUME PackageInv, Package!Trusted
             PROVE  Package!ExtractsWhole /\ Package!HasWhatItNeeds
  BY DEF Package!ExtractsWhole, Package!HasWhatItNeeds
<1>1. Sound(archive) /\ Complete BY DEF PackageInv, Package!Trusted
<1>2. \A e \in archive : e.name \in Package!Names(archive) BY DEF Package!Names
<1>3. \A e \in archive : Package!Parents(e.name) \subseteq Package!Directories(Package!Names(archive))
  BY <1>2 DEF Package!Directories
<1>4. Package!ExtractsWhole
  <2> SUFFICES ASSUME NEW e \in archive, NEW f \in archive
               PROVE  /\ e # f => Fold(e.name) # Fold(f.name)
                      /\ Fold(e.name) \notin {Fold(d) : d \in Package!Parents(f.name)}
                      /\ \A d \in Package!Parents(e.name), g \in Package!Parents(f.name) :
                           Fold(d) = Fold(g) => d = g
    BY DEF Package!ExtractsWhole
  <2>1. e # f => Fold(e.name) # Fold(f.name)
    BY <1>1, <1>2 DEF Sound, Single, Package!Verifies, Package!Members, Package!Distinct
  <2>2. Fold(e.name) \notin {Fold(d) : d \in Package!Parents(f.name)}
    BY <1>1, <1>2 DEF Sound, Package!Verifies, Package!Members
  <2>3. \A d \in Package!Parents(e.name), g \in Package!Parents(f.name) : Fold(d) = Fold(g) => d = g
    BY <1>1, <1>3 DEF Sound, Package!Verifies, Package!Distinct
  <2> QED BY <2>1, <2>2, <2>3
<1>5. Package!HasWhatItNeeds
  BY <1>1 DEF Sound, Complete, Bears, Package!HasWhatItNeeds
<1> QED BY <1>4, <1>5

(* A package whose digest was kept extracts, on every file system, to all of *)
(* its files, and holds the sources and what they need of the locked wheels, *)
(* whatever wheels were in the directory and however builds failed before.   *)
THEOREM PackageIsWhole == Package!Spec => [](Package!ExtractsWhole /\ Package!HasWhatItNeeds)
<1>1. PackageInv /\ [Package!Next]_Package!vars => PackageInv' BY PackageNext, HostAssumption
<1> QED BY <1>1, PackageInit, PackageSafe, PTL DEF Package!Spec

------------------------------------------------------------------------------
(* HostReady: how the controller learns that the host is ready.              *)

ReadyConstants ==
  /\ MaxGeneration \in Nat \ {0}
  /\ Nil \notin Probes /\ Nil \notin BOOLEAN /\ Nil \notin Ready!Generations

Tasks == [at : {"none", "before", "checks", "after", "done"}, ok : BOOLEAN, todo : SUBSET Checks,
          cancelled : BOOLEAN]

ReadyTypes ==
  /\ life \in [generation : Ready!Generations, eligible : BOOLEAN]
  /\ healthy \subseteq Checks
  /\ generation \in Ready!Generations \cup {Nil}
  /\ workFailed \in BOOLEAN /\ readinessClosed \in BOOLEAN
  /\ probe \in Probes \cup {Nil}
  /\ task \in [Probes -> Tasks]
  /\ serving \in [Probes -> {"no", "waiting", "answered"}]
  /\ replies \subseteq Ready!Reply
  /\ asked \in [Probes -> Ready!Generations \cup {Nil}]
  /\ verdict \in [Probes -> BOOLEAN \cup {Nil}]
  /\ seenHealthy \in [Probes -> SUBSET Checks]
  /\ seenEligible \in [Probes -> BOOLEAN]

\* Only the flight's task runs, and each is of a probe that asks about the
\* generation the process has read.
ProbesInv ==
  \A p \in Probes :
    /\ task[p].at \in {"before", "checks", "after"} => p = probe
    /\ task[p].at # "none" => asked[p] # Nil /\ asked[p] = generation
    /\ serving[p] = "no" => task[p].at = "none"
    /\ serving[p] = "waiting" => task[p].at # "none"
    /\ verdict[p] # Nil => asked[p] # Nil

\* What is true while a probe is open, it has seen.
WitnessInv ==
  \A p \in Probes : Ready!Open(p) =>
    /\ healthy \subseteq seenHealthy[p]
    /\ life.eligible /\ life.generation = asked[p] => seenEligible[p]

\* What a task, or a reply, says well of the host, its probe has seen.
SawAll(p) == seenHealthy[p] = Checks /\ seenEligible[p]

TasksInv ==
  \A p \in Probes : Ready!Open(p) /\ task[p].ok =>
    /\ task[p].at = "checks" => Checks \ task[p].todo \subseteq seenHealthy[p] /\ seenEligible[p]
    /\ task[p].at \in {"after", "done"} => SawAll(p)

RepliesInv ==
  \A r \in replies :
    /\ asked[r.nonce] # Nil
    /\ r.ready /\ Ready!Open(r.nonce) => SawAll(r.nonce)

ReadyInv == ReadyTypes /\ ProbesInv /\ WitnessInv /\ TasksInv /\ RepliesInv /\ Ready!ReadySince

\* A task after a step.
Aggregate(at, ok, left, cancelled) ==
  [at |-> at, ok |-> ok, todo |-> left, cancelled |-> cancelled]
Becomes(p, t) == task' = [task EXCEPT ![p] = t]

LEMMA TaskFields ==
  ASSUME ReadyTypes, NEW p \in Probes
  PROVE  LET t == task[p] IN
         /\ t.at \in {"none", "before", "checks", "after", "done"} /\ t.ok \in BOOLEAN
         /\ t.todo \subseteq Checks /\ t.cancelled \in BOOLEAN
         /\ t = Aggregate(t.at, t.ok, t.todo, t.cancelled)
BY DEF ReadyTypes, Tasks, Aggregate

LEMMA TaskMoves ==
  ASSUME NEW t \in Tasks, NEW x
  PROVE  /\ [t EXCEPT !.at = x] = Aggregate(x, t.ok, t.todo, t.cancelled)
         /\ [t EXCEPT !.ok = x] = Aggregate(t.at, x, t.todo, t.cancelled)
         /\ [t EXCEPT !.todo = x] = Aggregate(t.at, t.ok, x, t.cancelled)
         /\ [t EXCEPT !.cancelled = x] = Aggregate(t.at, t.ok, t.todo, x)
<1>1. t = Aggregate(t.at, t.ok, t.todo, t.cancelled) BY DEF Tasks, Aggregate
<1>. QED BY <1>1 DEF Aggregate

LEMMA TaskSet ==
  ASSUME NEW F \in [Probes -> Tasks], NEW p \in Probes, NEW t \in Tasks, NEW G,
         G = [F EXCEPT ![p] = t]
  PROVE  /\ G \in [Probes -> Tasks] /\ G[p] = t
         /\ \A u : [G EXCEPT ![p] = u] = [F EXCEPT ![p] = u]
OBVIOUS

LEMMA TaskPossible ==
  ASSUME NEW at \in {"none", "before", "checks", "after", "done"}, NEW ok \in BOOLEAN,
         NEW left \in SUBSET Checks, NEW cancelled \in BOOLEAN
  PROVE  Aggregate(at, ok, left, cancelled) \in Tasks
BY DEF Aggregate, Tasks

LEMMA EndsTask ==
  ASSUME ReadyTypes, NEW p \in Probes, NEW ok \in BOOLEAN, Ready!Ends(p, ok)
  PROVE  Becomes(p, Aggregate("done", ok, task[p].todo, task[p].cancelled))
<1>0. task \in [Probes -> Tasks] BY DEF ReadyTypes
<1> DEFINE t == Aggregate("done", task[p].ok, task[p].todo, task[p].cancelled)
<1>1. PICK R : R = [task EXCEPT ![p].at = "done"] OBVIOUS
<1>2. task' = [R EXCEPT ![p].ok = ok] BY <1>1, Zenon DEF Ready!Ends
<1>3. R = [task EXCEPT ![p] = t]
  <2>1. task[p] \in Tasks BY <1>0
  <2>2. [task[p] EXCEPT !.at = "done"] = t BY <2>1, TaskMoves
  <2>. QED BY <1>1, <2>2
<1>4. t \in Tasks BY TaskFields, TaskPossible
<1>5. R \in [Probes -> Tasks] /\ R[p] = t BY <1>0, <1>3, <1>4, TaskSet
<1>6. t.at = "done" /\ t.todo = task[p].todo /\ t.cancelled = task[p].cancelled BY DEF Aggregate
<1> HIDE DEF t
<1>7. task' = [R EXCEPT ![p] = Aggregate("done", ok, task[p].todo, task[p].cancelled)]
  <2>1. [t EXCEPT !.ok = ok] = Aggregate(t.at, ok, t.todo, t.cancelled) BY <1>4, TaskMoves
  <2>. QED BY <1>2, <1>5, <1>6, <2>1
<1>. QED BY <1>0, <1>3, <1>4, <1>7, TaskSet DEF Becomes

LEMMA ChecksTask ==
  ASSUME ReadyTypes, NEW p \in Probes,
         task' = [task EXCEPT ![p].at = "checks", ![p].todo = Checks]
  PROVE  Becomes(p, Aggregate("checks", task[p].ok, Checks, task[p].cancelled))
<1>0. task \in [Probes -> Tasks] BY DEF ReadyTypes
<1> DEFINE t == Aggregate("checks", task[p].ok, task[p].todo, task[p].cancelled)
<1>1. PICK R : R = [task EXCEPT ![p].at = "checks"] OBVIOUS
<1>2. task' = [R EXCEPT ![p].todo = Checks] BY <1>1, Zenon
<1>3. R = [task EXCEPT ![p] = t]
  <2>1. task[p] \in Tasks BY <1>0
  <2>2. [task[p] EXCEPT !.at = "checks"] = t BY <2>1, TaskMoves
  <2>. QED BY <1>1, <2>2
<1>4. t \in Tasks BY TaskFields, TaskPossible
<1>5. R \in [Probes -> Tasks] /\ R[p] = t BY <1>0, <1>3, <1>4, TaskSet
<1>6. t.at = "checks" /\ t.ok = task[p].ok /\ t.cancelled = task[p].cancelled BY DEF Aggregate
<1> HIDE DEF t
<1>7. task' = [R EXCEPT ![p] = Aggregate("checks", task[p].ok, Checks, task[p].cancelled)]
  <2>1. [t EXCEPT !.todo = Checks] = Aggregate(t.at, t.ok, Checks, t.cancelled)
    BY <1>4, TaskMoves
  <2>. QED BY <1>2, <1>5, <1>6, <2>1
<1>. QED BY <1>0, <1>3, <1>4, <1>7, TaskSet DEF Becomes

LEMMA RunTask ==
  ASSUME ReadyTypes, NEW p \in Probes, NEW c \in Checks, Ready!RunCheck(p, c)
  PROVE  /\ task[p].at = "checks" /\ c \in task[p].todo
         /\ Becomes(p, Aggregate(IF task[p].todo = {c} THEN "after" ELSE "checks",
                                 task[p].ok /\ c \in healthy, task[p].todo \ {c},
                                 task[p].cancelled))
<1>0. task \in [Probes -> Tasks] BY DEF ReadyTypes
<1> DEFINE at == IF task[p].todo = {c} THEN "after" ELSE "checks"
           left == task[p].todo \ {c}
           t == Aggregate("checks", task[p].ok, left, task[p].cancelled)
           u == Aggregate("checks", task[p].ok /\ c \in healthy, left, task[p].cancelled)
<1>1. task[p].at = "checks" /\ c \in task[p].todo BY Zenon DEF Ready!RunCheck
<1>2. task' = [task EXCEPT ![p].todo = @ \ {c}, ![p].ok = @ /\ c \in healthy,
                           ![p].at = IF task[p].todo = {c} THEN "after" ELSE @]
  BY Zenon DEF Ready!RunCheck
<1>3. PICK R : R = [task EXCEPT ![p].todo = @ \ {c}] OBVIOUS
<1>4. R = [task EXCEPT ![p] = t]
  <2>1. task[p] \in Tasks BY <1>0
  <2>2. [task[p] EXCEPT !.todo = left] = t BY <1>1, <2>1, TaskMoves
  <2>. QED BY <1>3, <2>2
<1>5. t \in Tasks
  <2>1. left \in SUBSET Checks BY TaskFields
  <2>. QED BY <2>1, TaskFields, TaskPossible
<1>6. R \in [Probes -> Tasks] /\ R[p] = t BY <1>0, <1>4, <1>5, TaskSet
<1>7. t.at = "checks" /\ t.ok = task[p].ok /\ t.todo = left /\ t.cancelled = task[p].cancelled
  BY DEF Aggregate
<1>8. u.at = "checks" /\ u.ok = (task[p].ok /\ c \in healthy) /\ u.todo = left
      /\ u.cancelled = task[p].cancelled
  BY DEF Aggregate
<1>9. u \in Tasks
  <2>1. left \in SUBSET Checks BY TaskFields
  <2>2. (task[p].ok /\ c \in healthy) \in BOOLEAN OBVIOUS
  <2>. QED BY <2>1, <2>2, TaskFields, TaskPossible
<1> HIDE DEF t, u, left
<1>10. PICK S : S = [R EXCEPT ![p].ok = @ /\ c \in healthy] OBVIOUS
<1>11. S = [R EXCEPT ![p] = u]
  <2> DEFINE fine == task[p].ok /\ c \in healthy
  <2>1. [t EXCEPT !.ok = fine] = Aggregate(t.at, fine, t.todo, t.cancelled) BY <1>5, TaskMoves
  <2>2. [t EXCEPT !.ok = fine] = u BY <1>7, <2>1 DEF u
  <2>. QED BY <1>6, <1>7, <1>10, <2>2
<1>12. S \in [Probes -> Tasks] /\ S[p] = u BY <1>6, <1>9, <1>11, TaskSet
<1>13. task' = [S EXCEPT ![p].at = IF task[p].todo = {c} THEN "after" ELSE @]
  BY <1>2, <1>3, <1>10, Zenon
<1>14. task' = [S EXCEPT ![p].at = at] BY <1>8, <1>12, <1>13
<1>15. task' = [S EXCEPT ![p] = Aggregate(at, task[p].ok /\ c \in healthy, left, task[p].cancelled)]
  <2>1. [u EXCEPT !.at = at] = Aggregate(at, u.ok, u.todo, u.cancelled) BY <1>9, TaskMoves
  <2>. QED BY <1>8, <1>12, <1>14, <2>1
<1>16. task' = [task EXCEPT ![p] = Aggregate(at, task[p].ok /\ c \in healthy, left, task[p].cancelled)]
  BY <1>0, <1>4, <1>5, <1>6, <1>9, <1>11, <1>15, TaskSet
<1>. QED BY <1>1, <1>16 DEF Becomes, left

\* Initially.
LEMMA ReadyStarts ==
  ASSUME ReadyConstants, Ready!Init
  PROVE  ReadyInv
<1>1. Ready!NoTask \in Tasks /\ Ready!NoTask.at = "none" BY DEF Ready!NoTask, Tasks
<1>2. 1 \in Ready!Generations BY DEF ReadyConstants, Ready!Generations
<1>3. ReadyTypes BY <1>1, <1>2 DEF Ready!Init, ReadyTypes
<1>4. \A p \in Probes : ~Ready!Open(p) BY DEF Ready!Init, Ready!Open
<1>5. ProbesInv BY <1>1 DEF Ready!Init, ProbesInv
<1>6. RepliesInv BY DEF Ready!Init, RepliesInv
<1>7. Ready!ReadySince BY DEF Ready!Init, Ready!ReadySince, ReadyConstants
<1>. QED BY <1>3, <1>4, <1>5, <1>6, <1>7 DEF ReadyInv, WitnessInv, TasksInv

\* The probe.
LEMMA ReadyAsk ==
  ASSUME ReadyConstants, ReadyInv, NEW p \in Probes, Ready!Ask(p)
  PROVE  ReadyInv'
<1>1. /\ asked[p] = Nil /\ asked' = [asked EXCEPT ![p] = life.generation]
      /\ seenHealthy' = [seenHealthy EXCEPT ![p] = healthy]
      /\ seenEligible' = [seenEligible EXCEPT ![p] = life.eligible]
      /\ life' = life /\ healthy' = healthy /\ generation' = generation
      /\ workFailed' = workFailed /\ readinessClosed' = readinessClosed /\ probe' = probe
      /\ task' = task /\ serving' = serving /\ replies' = replies /\ verdict' = verdict
  BY Zenon DEF Ready!Ask, Ready!host
<1>2. life.generation \in Ready!Generations /\ life.eligible \in BOOLEAN
  BY DEF ReadyInv, ReadyTypes
<1>3. ReadyTypes' BY <1>1, <1>2 DEF ReadyInv, ReadyTypes
<1>4. \A q \in Probes : /\ asked'[q] = IF q = p THEN life.generation ELSE asked[q]
                        /\ seenHealthy'[q] = IF q = p THEN healthy ELSE seenHealthy[q]
                        /\ seenEligible'[q] = IF q = p THEN life.eligible ELSE seenEligible[q]
  BY <1>1 DEF ReadyInv, ReadyTypes
<1>5. task[p].at = "none" BY <1>1 DEF ReadyInv, ProbesInv
<1>6. \A r \in replies : r.nonce \in Probes /\ r.nonce # p
  BY <1>1 DEF ReadyInv, RepliesInv, ReadyTypes, Ready!Reply
<1>7. ProbesInv' BY <1>1, <1>4, <1>5 DEF ReadyInv, ProbesInv
<1>8. \A q \in Probes : q # p => (Ready!Open(q)' <=> Ready!Open(q)) BY <1>1, <1>4 DEF Ready!Open
<1>9. WitnessInv' BY <1>1, <1>4, <1>8 DEF ReadyInv, WitnessInv
<1>10. TasksInv' BY <1>1, <1>4, <1>5, <1>8 DEF ReadyInv, TasksInv, SawAll
<1>11. RepliesInv' BY <1>1, <1>4, <1>6, <1>8 DEF ReadyInv, RepliesInv, SawAll
<1>12. verdict[p] # TRUE BY <1>1 DEF ReadyInv, ProbesInv, ReadyConstants
<1>13. Ready!ReadySince' BY <1>1, <1>4, <1>12 DEF ReadyInv, Ready!ReadySince
<1>. QED BY <1>3, <1>7, <1>9, <1>10, <1>11, <1>13 DEF ReadyInv

LEMMA ReadyVerdict ==
  ASSUME ReadyConstants, ReadyInv, NEW p \in Probes,
         Ready!GiveUp(p) \/ \E r \in replies : Ready!Read(p, r)
  PROVE  ReadyInv'
<1>1. /\ Ready!Open(p)
      /\ life' = life /\ healthy' = healthy /\ generation' = generation
      /\ workFailed' = workFailed /\ readinessClosed' = readinessClosed /\ probe' = probe
      /\ task' = task /\ serving' = serving /\ replies' = replies /\ asked' = asked
      /\ seenHealthy' = seenHealthy /\ seenEligible' = seenEligible
  BY Zenon DEF Ready!GiveUp, Ready!Read, Ready!host, Ready!seen
<1>2. PICK v \in BOOLEAN : verdict' = [verdict EXCEPT ![p] = v] /\ (v => SawAll(p))
  <2>1. CASE Ready!GiveUp(p) BY <2>1 DEF Ready!GiveUp
  <2>2. ASSUME NEW r \in replies, Ready!Read(p, r)
        PROVE  \E v \in BOOLEAN : verdict' = [verdict EXCEPT ![p] = v] /\ (v => SawAll(p))
    <3>1. verdict' = [verdict EXCEPT ![p] = Ready!Takes(p, r)] BY <2>2 DEF Ready!Read
    <3>2. r.ready \in BOOLEAN BY DEF ReadyInv, ReadyTypes, Ready!Reply
    <3>3. Ready!Takes(p, r) \in BOOLEAN BY <3>2 DEF Ready!Takes
    <3>4. Ready!Takes(p, r) => SawAll(p) BY <1>1 DEF Ready!Takes, ReadyInv, RepliesInv
    <3>. QED BY <3>1, <3>3, <3>4
  <2>. QED BY <2>1, <2>2
<1>3. \A q \in Probes : verdict'[q] = IF q = p THEN v ELSE verdict[q]
  BY <1>2 DEF ReadyInv, ReadyTypes
<1>4. ReadyTypes' BY <1>1, <1>2 DEF ReadyInv, ReadyTypes
<1>5. \A q \in Probes : Ready!Open(q)' => Ready!Open(q)
  BY <1>1, <1>2, <1>3 DEF Ready!Open, ReadyConstants
<1>6. ProbesInv' BY <1>1, <1>3 DEF ReadyInv, ProbesInv, Ready!Open
<1>7. WitnessInv' BY <1>1, <1>5 DEF ReadyInv, WitnessInv
<1>8. TasksInv' BY <1>1, <1>5 DEF ReadyInv, TasksInv, SawAll
<1>9. \A r \in replies : r.nonce \in Probes BY DEF ReadyInv, ReadyTypes, Ready!Reply
<1>10. RepliesInv' BY <1>1, <1>5, <1>9 DEF ReadyInv, RepliesInv, SawAll
<1>11. Ready!ReadySince' BY <1>1, <1>2, <1>3 DEF ReadyInv, Ready!ReadySince, SawAll
<1>. QED BY <1>4, <1>6, <1>7, <1>8, <1>10, <1>11 DEF ReadyInv

\* Steps of the host do not touch what its probes see.
HostOnly ==
  /\ life' = life /\ healthy' = healthy /\ asked' = asked /\ verdict' = verdict
  /\ seenHealthy' = seenHealthy /\ seenEligible' = seenEligible

LEMMA ReadyHostStep ==
  ASSUME ReadyInv, HostOnly, ReadyTypes', ProbesInv', TasksInv', RepliesInv'
  PROVE  ReadyInv'
<1>1. WitnessInv' BY DEF ReadyInv, WitnessInv, HostOnly, Ready!Open
<1>2. Ready!ReadySince' BY DEF ReadyInv, Ready!ReadySince, HostOnly
<1>. QED BY <1>1, <1>2 DEF ReadyInv

LEMMA ReadyAnswers ==
  ASSUME ReadyConstants, ReadyInv, NEW p \in Probes, NEW ready \in BOOLEAN, Ready!Send(p, ready),
         HostOnly, asked[p] # Nil, asked[p] = generation,
         ready /\ Ready!Open(p) => SawAll(p)
  PROVE  replies' \subseteq Ready!Reply /\ RepliesInv'
<1> DEFINE new == [nonce |-> p, generation |-> generation, ready |-> ready]
<1>1. replies' = replies \cup {new} BY DEF Ready!Send
<1>2. generation \in Ready!Generations BY DEF ReadyInv, ReadyTypes
<1>3. new \in Ready!Reply /\ new.nonce = p /\ new.ready = ready BY <1>2 DEF Ready!Reply
<1> HIDE DEF new
<1>4. replies' \subseteq Ready!Reply BY <1>1, <1>3 DEF ReadyInv, ReadyTypes
<1>5. SUFFICES ASSUME NEW r \in replies'
               PROVE  asked'[r.nonce] # Nil /\ (r.ready /\ Ready!Open(r.nonce)' => SawAll(r.nonce)')
  BY <1>4 DEF RepliesInv
<1>6. CASE r \in replies BY <1>6 DEF ReadyInv, RepliesInv, HostOnly, Ready!Open, SawAll
<1>7. CASE r = new BY <1>3, <1>7 DEF HostOnly, Ready!Open, SawAll
<1>. QED BY <1>1, <1>6, <1>7

LEMMA ReadyResponds ==
  ASSUME ReadyConstants, ReadyInv, NEW p \in Probes, Ready!Respond(p)
  PROVE  ReadyInv'
<1>1. /\ asked[p] # Nil /\ asked[p] = generation /\ serving[p] = "no"
      /\ IF ~readinessClosed /\ Ready!Idle THEN Ready!StartFlight(p) ELSE Ready!ReplyNow(p, FALSE)
      /\ HostOnly /\ generation' = generation /\ workFailed' = workFailed
      /\ readinessClosed' = readinessClosed
  BY Zenon DEF Ready!Respond, Ready!seen, HostOnly
<1>2. task[p].at = "none" BY <1>1 DEF ReadyInv, ProbesInv
<1>3. CASE ~readinessClosed /\ Ready!Idle
  <2> DEFINE t == Aggregate("before", task[p].ok, task[p].todo, task[p].cancelled)
  <2>1. /\ probe' = p /\ task' = [task EXCEPT ![p].at = "before"]
        /\ serving' = [serving EXCEPT ![p] = "waiting"] /\ replies' = replies
    BY <1>1, <1>3, Zenon DEF Ready!StartFlight
  <2>2. task[p] \in Tasks BY DEF ReadyInv, ReadyTypes
  <2>3. [task[p] EXCEPT !.at = "before"] = t BY <2>2, TaskMoves
  <2>4. task' = [task EXCEPT ![p] = t] BY <2>1, <2>3
  <2>5. t \in Tasks BY TaskFields, TaskPossible DEF ReadyInv
  <2>6. t.at = "before" BY DEF Aggregate
  <2> HIDE DEF t
  <2>7. \A q \in Probes : task'[q] = IF q = p THEN t ELSE task[q]
    BY <2>4 DEF ReadyInv, ReadyTypes
  <2>8. \A q \in Probes : serving'[q] = IF q = p THEN "waiting" ELSE serving[q]
    BY <2>1 DEF ReadyInv, ReadyTypes
  <2>9. \A q \in Probes : task[q].at \notin {"before", "checks", "after"}
    <3>1. probe \in Probes => task[probe].at \in {"none", "done"}
      BY <1>3 DEF Ready!Idle, ReadyConstants
    <3>. QED BY <3>1 DEF ReadyInv, ProbesInv
  <2>10. ReadyTypes' BY <1>1, <2>1, <2>4, <2>5 DEF ReadyInv, ReadyTypes, HostOnly
  <2>11. ProbesInv' BY <1>1, <2>1, <2>6, <2>7, <2>8, <2>9 DEF ReadyInv, ProbesInv, HostOnly
  <2>12. TasksInv' BY <1>1, <2>6, <2>7 DEF ReadyInv, TasksInv, HostOnly, Ready!Open, SawAll
  <2>13. RepliesInv' BY <1>1, <2>1 DEF ReadyInv, RepliesInv, HostOnly, Ready!Open, SawAll
  <2>. QED BY <1>1, <2>10, <2>11, <2>12, <2>13, ReadyHostStep
<1>4. CASE ~(~readinessClosed /\ Ready!Idle)
  <2>1. /\ serving' = [serving EXCEPT ![p] = "answered"] /\ Ready!Send(p, FALSE)
        /\ probe' = probe /\ task' = task
    BY <1>1, <1>4, Zenon DEF Ready!ReplyNow
  <2>2. replies' \subseteq Ready!Reply /\ RepliesInv' BY <1>1, <2>1, ReadyAnswers
  <2>3. \A q \in Probes : serving'[q] = IF q = p THEN "answered" ELSE serving[q]
    BY <2>1 DEF ReadyInv, ReadyTypes
  <2>4. ReadyTypes' BY <1>1, <2>1, <2>2 DEF ReadyInv, ReadyTypes, HostOnly
  <2>5. ProbesInv' BY <1>1, <2>1, <2>3 DEF ReadyInv, ProbesInv, HostOnly
  <2>6. TasksInv' BY <1>1, <2>1 DEF ReadyInv, TasksInv, HostOnly, Ready!Open, SawAll
  <2>. QED BY <1>1, <2>2, <2>4, <2>5, <2>6, ReadyHostStep
<1>. QED BY <1>3, <1>4

LEMMA ReadyAnswered ==
  ASSUME ReadyConstants, ReadyInv, NEW p \in Probes, Ready!Answer(p)
  PROVE  ReadyInv'
<1> DEFINE over == task[p].at = "done"
           ready == over /\ ~task[p].cancelled /\ task[p].ok /\ ~readinessClosed /\ ~workFailed
<1>1. /\ serving[p] = "waiting" /\ serving' = [serving EXCEPT ![p] = "answered"]
      /\ Ready!Send(p, ready)
      /\ task' = IF over THEN task ELSE [task EXCEPT ![p].cancelled = TRUE]
      /\ HostOnly /\ generation' = generation /\ workFailed' = workFailed
      /\ readinessClosed' = readinessClosed /\ probe' = probe
  BY Zenon DEF Ready!Answer, Ready!seen, HostOnly
<1>2. replies' \subseteq Ready!Reply /\ RepliesInv'
  <2>1. ready \in BOOLEAN OBVIOUS
  <2>2. PICK b \in BOOLEAN : b = ready BY <2>1, Zenon
  <2>3. Ready!Send(p, b) BY <1>1, <2>2, Zenon
  <2>4. b => task[p].at = "done" /\ task[p].ok BY <2>2
  <2>5. asked[p] # Nil /\ asked[p] = generation BY <1>1 DEF ReadyInv, ProbesInv
  <2>6. b /\ Ready!Open(p) => SawAll(p) BY <2>4 DEF ReadyInv, TasksInv
  <2>. QED BY <1>1, <2>3, <2>5, <2>6, ReadyAnswers
<1>3. PICK t \in Tasks : /\ t.at = task[p].at /\ t.ok = task[p].ok /\ t.todo = task[p].todo
                         /\ task' = [task EXCEPT ![p] = t]
  <2>1. task \in [Probes -> Tasks] /\ task[p] \in Tasks BY DEF ReadyInv, ReadyTypes
  <2>2. CASE over
    <3>1. task' = [task EXCEPT ![p] = task[p]] BY <1>1, <2>1, <2>2
    <3>. QED BY <2>1, <3>1
  <2>3. CASE ~over
    <3> DEFINE t == Aggregate(task[p].at, task[p].ok, task[p].todo, TRUE)
    <3>1. [task[p] EXCEPT !.cancelled = TRUE] = t BY <2>1, TaskMoves
    <3>2. task' = [task EXCEPT ![p].cancelled = TRUE] BY <1>1, <2>3
    <3>3. task' = [task EXCEPT ![p] = t] BY <3>1, <3>2
    <3>4. t \in Tasks BY TaskFields, TaskPossible DEF ReadyInv
    <3>5. t.at = task[p].at /\ t.ok = task[p].ok /\ t.todo = task[p].todo BY DEF Aggregate
    <3>. QED BY <3>3, <3>4, <3>5
  <2>. QED BY <2>2, <2>3
<1>4. \A q \in Probes : task'[q] = IF q = p THEN t ELSE task[q] BY <1>3 DEF ReadyInv, ReadyTypes
<1>5. \A q \in Probes : serving'[q] = IF q = p THEN "answered" ELSE serving[q]
  BY <1>1 DEF ReadyInv, ReadyTypes
<1>6. ReadyTypes' BY <1>1, <1>2, <1>3 DEF ReadyInv, ReadyTypes, HostOnly
<1>7. ProbesInv' BY <1>1, <1>3, <1>4, <1>5 DEF ReadyInv, ProbesInv, HostOnly
<1>8. TasksInv' BY <1>1, <1>3, <1>4 DEF ReadyInv, TasksInv, HostOnly, Ready!Open, SawAll
<1>. QED BY <1>1, <1>2, <1>6, <1>7, <1>8, ReadyHostStep

\* A step of a task.
LEMMA ReadyTaskStep ==
  ASSUME ReadyConstants, ReadyInv, NEW p \in Probes, NEW t \in Tasks, Becomes(p, t), HostOnly,
         workFailed' \in BOOLEAN, generation' = generation, readinessClosed' = readinessClosed,
         probe' = probe, serving' = serving, replies' = replies,
         task[p].at \in {"before", "checks", "after"}, t.at # "none",
         Ready!Open(p) /\ t.ok =>
           /\ t.at = "checks" => Checks \ t.todo \subseteq seenHealthy[p] /\ seenEligible[p]
           /\ t.at \in {"after", "done"} => SawAll(p)
  PROVE  ReadyInv'
<1>1. \A q \in Probes : task'[q] = IF q = p THEN t ELSE task[q]
  BY DEF ReadyInv, ReadyTypes, Becomes
<1>2. ReadyTypes' BY DEF ReadyInv, ReadyTypes, HostOnly, Becomes
<1>3. ProbesInv' BY <1>1 DEF ReadyInv, ProbesInv, HostOnly
<1>4. TasksInv' BY <1>1 DEF ReadyInv, TasksInv, HostOnly, Ready!Open, SawAll
<1>5. RepliesInv' BY DEF ReadyInv, RepliesInv, HostOnly, Ready!Open, SawAll
<1>. QED BY <1>2, <1>3, <1>4, <1>5, ReadyHostStep

LEMMA ReadyEnds ==
  ASSUME ReadyConstants, ReadyInv, NEW p \in Probes, NEW ok \in BOOLEAN, Ready!Ends(p, ok), HostOnly,
         workFailed' \in BOOLEAN, generation' = generation, readinessClosed' = readinessClosed,
         probe' = probe, serving' = serving, replies' = replies,
         task[p].at \in {"before", "checks", "after"},
         ok => task[p].at = "after" /\ task[p].ok
  PROVE  ReadyInv'
<1> DEFINE t == Aggregate("done", ok, task[p].todo, task[p].cancelled)
<1>1. Becomes(p, t) BY EndsTask DEF ReadyInv
<1>2. t \in Tasks BY TaskFields, TaskPossible DEF ReadyInv
<1>3. t.at = "done" /\ t.ok = ok BY DEF Aggregate
<1> HIDE DEF t
<1>4. Ready!Open(p) /\ t.ok => SawAll(p) BY <1>3 DEF ReadyInv, TasksInv
<1>. QED BY <1>1, <1>2, <1>3, <1>4, ReadyTaskStep

LEMMA ReadyReadsRow ==
  ASSUME ReadyConstants, ReadyInv, NEW p \in Probes, Ready!ReadRow(p)
  PROVE  ReadyInv'
<1> DEFINE away == life.generation # generation
           fine == life.eligible /\ ~away /\ ~workFailed
<1>1. /\ task[p].at \in {"before", "after"} /\ workFailed' = (workFailed \/ away)
      /\ IF task[p].at = "after" THEN Ready!Ends(p, task[p].ok /\ fine)
         ELSE IF fine THEN task' = [task EXCEPT ![p].at = "checks", ![p].todo = Checks]
         ELSE Ready!Ends(p, FALSE)
      /\ HostOnly /\ generation' = generation /\ readinessClosed' = readinessClosed
      /\ probe' = probe /\ serving' = serving /\ replies' = replies
  BY Zenon DEF Ready!ReadRow, Ready!net, Ready!seen, HostOnly
<1>2. workFailed' \in BOOLEAN BY <1>1 DEF ReadyInv, ReadyTypes
<1>3. CASE task[p].at = "after"
  <2>1. (task[p].ok /\ fine) \in BOOLEAN OBVIOUS
  <2>2. PICK ok \in BOOLEAN : ok = (task[p].ok /\ fine) BY <2>1, Zenon
  <2>3. Ready!Ends(p, ok) BY <1>1, <1>3, <2>2, Zenon
  <2>4. ok => task[p].ok BY <2>2
  <2>. QED BY <1>1, <1>2, <1>3, <2>3, <2>4, ReadyEnds
<1>4. CASE task[p].at # "after" /\ fine
  <2> DEFINE t == Aggregate("checks", task[p].ok, Checks, task[p].cancelled)
  <2>1. task' = [task EXCEPT ![p].at = "checks", ![p].todo = Checks] BY <1>1, <1>4, Zenon
  <2>2. Becomes(p, t) BY <2>1, ChecksTask DEF ReadyInv
  <2>3. Checks \in SUBSET Checks OBVIOUS
  <2>4. t \in Tasks BY <2>3, TaskFields, TaskPossible DEF ReadyInv
  <2>5. t.at = "checks" /\ t.todo = Checks BY DEF Aggregate
  <2> HIDE DEF t
  <2>6. asked[p] = generation BY <1>1 DEF ReadyInv, ProbesInv
  <2>7. Ready!Open(p) => seenEligible[p] BY <1>4, <2>6 DEF ReadyInv, WitnessInv
  <2>. QED BY <1>1, <1>2, <2>2, <2>4, <2>5, <2>7, ReadyTaskStep
<1>5. CASE task[p].at # "after" /\ ~fine
  <2>1. Ready!Ends(p, FALSE) BY <1>1, <1>5, Zenon
  <2>. QED BY <1>1, <1>2, <2>1, ReadyEnds
<1>. QED BY <1>3, <1>4, <1>5

LEMMA ReadyRunsCheck ==
  ASSUME ReadyConstants, ReadyInv, NEW p \in Probes, NEW c \in Checks, Ready!RunCheck(p, c)
  PROVE  ReadyInv'
<1> DEFINE left == task[p].todo \ {c}
           at == IF task[p].todo = {c} THEN "after" ELSE "checks"
           t == Aggregate(at, task[p].ok /\ c \in healthy, left, task[p].cancelled)
<1>1. task[p].at = "checks" /\ c \in task[p].todo /\ Becomes(p, t) BY RunTask DEF ReadyInv
<1>2. /\ HostOnly /\ workFailed' = workFailed /\ generation' = generation
      /\ readinessClosed' = readinessClosed /\ probe' = probe /\ serving' = serving
      /\ replies' = replies
  BY Zenon DEF Ready!RunCheck, Ready!net, Ready!seen, HostOnly
<1>3. t \in Tasks
  <2>1. left \in SUBSET Checks BY TaskFields DEF ReadyInv
  <2>2. (task[p].ok /\ c \in healthy) \in BOOLEAN OBVIOUS
  <2>. QED BY <2>1, <2>2, TaskFields, TaskPossible DEF ReadyInv
<1>4. t.at = at /\ t.ok = (task[p].ok /\ c \in healthy) /\ t.todo = left BY DEF Aggregate
<1> HIDE DEF t
<1>5. ASSUME Ready!Open(p), t.ok
      PROVE  Checks \ left \subseteq seenHealthy[p] /\ seenEligible[p] /\ seenHealthy[p] \subseteq Checks
  BY <1>1, <1>4, <1>5 DEF ReadyInv, TasksInv, WitnessInv, ReadyTypes
<1>6. Ready!Open(p) /\ t.ok => /\ t.at = "checks" => Checks \ t.todo \subseteq seenHealthy[p] /\ seenEligible[p]
                               /\ t.at \in {"after", "done"} => SawAll(p)
  BY <1>4, <1>5 DEF SawAll
<1>7. workFailed' \in BOOLEAN BY <1>2 DEF ReadyInv, ReadyTypes
<1>. QED BY <1>1, <1>2, <1>3, <1>4, <1>6, <1>7, ReadyTaskStep

LEMMA ReadyBreaks ==
  ASSUME ReadyConstants, ReadyInv, NEW p \in Probes, Ready!Break(p)
  PROVE  ReadyInv'
<1>1. /\ task[p].at \in {"before", "checks", "after"} /\ Ready!Ends(p, FALSE)
      /\ HostOnly /\ workFailed' = workFailed /\ generation' = generation
      /\ readinessClosed' = readinessClosed /\ probe' = probe /\ serving' = serving
      /\ replies' = replies
  BY Zenon DEF Ready!Break, Ready!net, Ready!seen, HostOnly
<1>2. workFailed' \in BOOLEAN BY <1>1 DEF ReadyInv, ReadyTypes
<1>. QED BY <1>1, <1>2, ReadyEnds

\* The process and the world.
LEMMA ReadyHostActs ==
  ASSUME ReadyConstants, ReadyInv, Ready!Initialize \/ Ready!LoseAuthority
  PROVE  ReadyInv'
<1>1. /\ HostOnly /\ readinessClosed' = readinessClosed /\ probe' = probe /\ task' = task
      /\ serving' = serving /\ replies' = replies
  BY Zenon DEF Ready!Initialize, Ready!LoseAuthority, Ready!net, Ready!seen, HostOnly
<1>2. TasksInv' BY <1>1 DEF ReadyInv, TasksInv, HostOnly, Ready!Open, SawAll
<1>3. RepliesInv' BY <1>1 DEF ReadyInv, RepliesInv, HostOnly, Ready!Open, SawAll
<1>4. CASE Ready!Initialize
  <2>1. generation = Nil /\ generation' = life.generation /\ workFailed' = workFailed
    BY <1>4, Zenon DEF Ready!Initialize
  <2>2. ReadyTypes' BY <1>1, <2>1 DEF ReadyInv, ReadyTypes, HostOnly
  <2>3. \A p \in Probes : task[p].at = "none" BY <2>1 DEF ReadyInv, ProbesInv
  <2>4. ProbesInv' BY <1>1, <2>3 DEF ReadyInv, ProbesInv, HostOnly
  <2>. QED BY <1>1, <1>2, <1>3, <2>2, <2>4, ReadyHostStep
<1>5. CASE Ready!LoseAuthority
  <2>1. generation' = generation /\ workFailed' = TRUE BY <1>5, Zenon DEF Ready!LoseAuthority
  <2>2. ReadyTypes' BY <1>1, <2>1 DEF ReadyInv, ReadyTypes, HostOnly
  <2>3. ProbesInv' BY <1>1, <2>1 DEF ReadyInv, ProbesInv, HostOnly
  <2>. QED BY <1>1, <1>2, <1>3, <2>2, <2>3, ReadyHostStep
<1>. QED BY <1>4, <1>5

LEMMA ReadyCloses ==
  ASSUME ReadyConstants, ReadyInv, Ready!Close
  PROVE  ReadyInv'
<1>1. /\ HostOnly /\ generation' = generation /\ workFailed' = workFailed
      /\ readinessClosed' = TRUE /\ probe' = probe /\ serving' = serving /\ replies' = replies
      /\ task' = IF Ready!Idle THEN task ELSE [task EXCEPT ![probe].cancelled = TRUE]
  BY Zenon DEF Ready!Close, Ready!net, Ready!seen, HostOnly
<1>2. /\ task' \in [Probes -> Tasks]
      /\ \A q \in Probes : /\ task'[q].at = task[q].at /\ task'[q].ok = task[q].ok
                           /\ task'[q].todo = task[q].todo
  <2>0. task \in [Probes -> Tasks] BY DEF ReadyInv, ReadyTypes
  <2>1. CASE Ready!Idle BY <1>1, <2>0, <2>1
  <2>2. CASE ~Ready!Idle
    <3>1. probe \in Probes BY <2>2 DEF Ready!Idle, ReadyInv, ReadyTypes
    <3>2. task[probe] \in Tasks BY <2>0, <3>1
    <3> DEFINE t == Aggregate(task[probe].at, task[probe].ok, task[probe].todo, TRUE)
    <3>3. [task[probe] EXCEPT !.cancelled = TRUE] = t BY <3>2, TaskMoves
    <3>4. task' = [task EXCEPT ![probe].cancelled = TRUE] BY <1>1, <2>2
    <3>5. task' = [task EXCEPT ![probe] = t] BY <3>3, <3>4
    <3>6. t \in Tasks BY <3>1, TaskFields, TaskPossible DEF ReadyInv
    <3>7. t.at = task[probe].at /\ t.ok = task[probe].ok /\ t.todo = task[probe].todo
      BY DEF Aggregate
    <3> HIDE DEF t
    <3>. QED BY <2>0, <3>1, <3>5, <3>6, <3>7
  <2>. QED BY <2>1, <2>2
<1>3. ReadyTypes' BY <1>1, <1>2 DEF ReadyInv, ReadyTypes, HostOnly
<1>4. ProbesInv' BY <1>1, <1>2 DEF ReadyInv, ProbesInv, HostOnly
<1>5. TasksInv' BY <1>1, <1>2 DEF ReadyInv, TasksInv, HostOnly, Ready!Open, SawAll
<1>6. RepliesInv' BY <1>1 DEF ReadyInv, RepliesInv, HostOnly, Ready!Open, SawAll
<1>. QED BY <1>1, <1>3, <1>4, <1>5, <1>6, ReadyHostStep

LEMMA ReadyWorld ==
  ASSUME ReadyConstants, ReadyInv,
         Ready!Lapse \/ Ready!Wake \/ \E c \in Checks : Ready!Turn(c)
  PROVE  ReadyInv'
<1>1. /\ generation' = generation /\ workFailed' = workFailed /\ probe' = probe
      /\ readinessClosed' = readinessClosed /\ task' = task /\ serving' = serving
      /\ replies' = replies /\ asked' = asked /\ verdict' = verdict
      /\ Ready!Witness
  BY Zenon DEF Ready!Lapse, Ready!Wake, Ready!Turn, Ready!host, Ready!net
<1>2. life' \in [generation : Ready!Generations, eligible : BOOLEAN] /\ healthy' \subseteq Checks
  <2>1. CASE Ready!Lapse BY <2>1 DEF Ready!Lapse, ReadyInv, ReadyTypes
  <2>2. CASE Ready!Wake
    BY <2>2 DEF Ready!Wake, ReadyInv, ReadyTypes, ReadyConstants, Ready!Generations
  <2>3. CASE \E c \in Checks : Ready!Turn(c) BY <2>3 DEF Ready!Turn, ReadyInv, ReadyTypes
  <2>. QED BY <2>1, <2>2, <2>3
<1>3. \A p \in Probes :
        /\ seenHealthy'[p] = IF Ready!Open(p) THEN seenHealthy[p] \cup healthy' ELSE seenHealthy[p]
        /\ seenEligible'[p] = IF Ready!Open(p)
                              THEN \/ seenEligible[p]
                                   \/ life'.eligible /\ life'.generation = asked[p]
                              ELSE seenEligible[p]
  <2>1. seenHealthy' = [p \in Probes |-> IF Ready!Open(p) THEN seenHealthy[p] \cup healthy'
                                                        ELSE seenHealthy[p]]
    BY <1>1, Zenon DEF Ready!Witness
  <2>2. seenEligible' = [p \in Probes |-> IF Ready!Open(p)
                                          THEN \/ seenEligible[p]
                                               \/ life'.eligible /\ life'.generation = asked[p]
                                          ELSE seenEligible[p]]
    BY <1>1, Zenon DEF Ready!Witness
  <2>. QED BY <2>1, <2>2, Zenon
<1>4. ReadyTypes'
  <2>1. seenHealthy' \in [Probes -> SUBSET Checks]
    BY <1>1, <1>2 DEF Ready!Witness, ReadyInv, ReadyTypes
  <2>2. seenEligible' \in [Probes -> BOOLEAN]
    BY <1>1, <1>2 DEF Ready!Witness, ReadyInv, ReadyTypes
  <2>. QED BY <1>1, <1>2, <2>1, <2>2 DEF ReadyInv, ReadyTypes
<1>5. \A p \in Probes : Ready!Open(p)' <=> Ready!Open(p) BY <1>1 DEF Ready!Open
<1>6. \A p \in Probes : /\ seenHealthy[p] \subseteq seenHealthy'[p]
                        /\ seenHealthy'[p] \subseteq Checks
                        /\ seenEligible[p] => seenEligible'[p]
  <2>1. \A p \in Probes : seenHealthy'[p] \subseteq Checks BY <1>4 DEF ReadyTypes
  <2>2. ASSUME NEW p \in Probes
        PROVE  seenHealthy[p] \subseteq seenHealthy'[p] /\ (seenEligible[p] => seenEligible'[p])
    BY <1>3
  <2>. QED BY <2>1, <2>2
<1>7. \A p \in Probes : SawAll(p) => SawAll(p)' BY <1>6 DEF SawAll
<1>8. ProbesInv' BY <1>1 DEF ReadyInv, ProbesInv
<1>9. WitnessInv' BY <1>1, <1>3, <1>5 DEF WitnessInv
<1>10. TasksInv' BY <1>1, <1>5, <1>6, <1>7 DEF ReadyInv, TasksInv
<1>11. \A r \in replies : r.nonce \in Probes BY DEF ReadyInv, ReadyTypes, Ready!Reply
<1>12. RepliesInv' BY <1>1, <1>5, <1>7, <1>11 DEF ReadyInv, RepliesInv
<1>13. Ready!ReadySince' BY <1>1, <1>6 DEF ReadyInv, Ready!ReadySince
<1>. QED BY <1>4, <1>8, <1>9, <1>10, <1>12, <1>13 DEF ReadyInv

LEMMA ReadyStep ==
  ASSUME ReadyConstants, ReadyInv, Ready!Next \/ UNCHANGED Ready!vars
  PROVE  ReadyInv'
<1>1. CASE UNCHANGED Ready!vars
  <2>1. HostOnly /\ UNCHANGED <<generation, workFailed, readinessClosed, probe, task, serving, replies>>
    BY <1>1, Zenon DEF Ready!vars, Ready!host, Ready!net, Ready!seen, HostOnly
  <2>2. ReadyTypes' BY <2>1 DEF ReadyInv, ReadyTypes, HostOnly
  <2>3. ProbesInv' BY <2>1 DEF ReadyInv, ProbesInv, HostOnly
  <2>4. TasksInv' BY <2>1 DEF ReadyInv, TasksInv, HostOnly, Ready!Open, SawAll
  <2>5. RepliesInv' BY <2>1 DEF ReadyInv, RepliesInv, HostOnly, Ready!Open, SawAll
  <2>. QED BY <2>1, <2>2, <2>3, <2>4, <2>5, ReadyHostStep
<1>2. ASSUME NEW p \in Probes,
             \/ Ready!Ask(p) \/ Ready!GiveUp(p) \/ Ready!Respond(p) \/ Ready!Answer(p)
             \/ Ready!ReadRow(p) \/ Ready!Break(p)
             \/ \E r \in replies : Ready!Read(p, r)
             \/ \E c \in Checks : Ready!RunCheck(p, c)
      PROVE  ReadyInv'
  BY <1>2, ReadyAsk, ReadyVerdict, ReadyResponds, ReadyAnswered, ReadyReadsRow, ReadyRunsCheck,
     ReadyBreaks, Zenon
<1>3. CASE Ready!Initialize \/ Ready!LoseAuthority BY <1>3, ReadyHostActs
<1>4. CASE Ready!Close BY <1>4, ReadyCloses
<1>5. CASE Ready!Lapse \/ Ready!Wake \/ \E c \in Checks : Ready!Turn(c) BY <1>5, ReadyWorld
<1>. QED BY <1>1, <1>2, <1>3, <1>4, <1>5, Zenon DEF Ready!Next

LEMMA ReadyCounting == \A S : Ready!Cardinality(S) = Cardinality(S)
BY DEF Ready!Cardinality, Cardinality

LEMMA ReadyHolds ==
  ASSUME ReadyConstants, ReadyInv
  PROVE  Ready!TypeOK /\ Ready!ReadySince /\ Ready!OneFlight
<1>1. Ready!TypeOK BY DEF ReadyInv, ReadyTypes, ProbesInv, Tasks, Ready!TypeOK
<1>2. Ready!Running \subseteq {probe} BY DEF ReadyInv, ProbesInv, Ready!Running
<1>3. Cardinality(Ready!Running) <= 1
  <2>1. Ready!Running = {} \/ Ready!Running = {probe} BY <1>2
  <2>2. Cardinality({}) = 0 /\ Cardinality({probe}) = 1 BY FS_EmptySet, FS_Singleton
  <2>. QED BY <2>1, <2>2
<1>4. Ready!OneFlight BY <1>3, ReadyCounting DEF Ready!OneFlight
<1>. QED BY <1>1, <1>4 DEF ReadyInv

LEMMA ReadyIsProper == ReadyConstants
BY HostAssumption, NilAssumption DEF ReadyConstants

(* For every number of probes, checks and generations: a probe that reports  *)
(* the host ready is right about the time since it asked - the row was in    *)
(* that generation and eligible, and every check could succeed - whatever    *)
(* older replies it was shown and whoever else was asking, and the checks    *)
(* never run twice at once (readiness.py, host_health.py).                   *)
THEOREM ReadyIsRight ==
  Ready!Spec => [](Ready!TypeOK /\ Ready!ReadySince /\ Ready!OneFlight)
<1>1. Ready!Init => ReadyInv BY ReadyStarts, ReadyIsProper
<1>2. ReadyInv /\ [Ready!Next]_Ready!vars => ReadyInv' BY ReadyStep, ReadyIsProper
<1>3. ReadyInv => Ready!TypeOK /\ Ready!ReadySince /\ Ready!OneFlight BY ReadyHolds, ReadyIsProper
<1>. QED BY <1>1, <1>2, <1>3, PTL DEF Ready!Spec

------------------------------------------------------------------------------
(* All of it.                                                                *)
HostsInv ==
  /\ which = "ready" => ReadyInv
  /\ which = "host" => HostInv
  /\ which = "releases" => ReleasesInv
  /\ which = "services" => ServicesInv
  /\ which = "package" => PackageInv

LEMMA HostsStep ==
  ASSUME HostsInv, [HostNext]_hostVars
  PROVE  HostsInv'
<1>1. which' = which BY Zenon DEF HostNext, hostVars
<1>2. ASSUME which = "ready" PROVE ReadyInv'
  <2>1. [Ready!Next]_(Ready!vars)
    BY <1>2, Zenon DEF HostNext, hostVars, readyVars, Ready!vars, Ready!host, Ready!net, Ready!seen
  <2>. QED BY <1>2, <2>1, ReadyStep, ReadyIsProper DEF HostsInv
<1>3. ASSUME which = "host" PROVE HostInv'
  <2>1. [Host!Next]_(Host!vars)
    BY <1>3, Zenon DEF HostNext, hostVars, assemblyVars, Host!vars
  <2>. QED BY <1>3, <2>1, AssemblyNext, HostIsProper DEF HostsInv
<1>4. ASSUME which = "releases" PROVE ReleasesInv'
  <2>1. [Releases!Next]_(Releases!vars)
    BY <1>4, Zenon DEF HostNext, hostVars, releaseVars, Releases!vars
  <2>. QED BY <1>4, <2>1, ReleasesNext DEF HostsInv
<1>5. ASSUME which = "services" PROVE ServicesInv'
  <2>1. [Services!Next]_(Services!vars)
    BY <1>5, Zenon DEF HostNext, hostVars, servicesVars, Services!vars, Services!history,
      Services!resting
  <2>. QED BY <1>5, <2>1, ServicesNext DEF HostsInv
<1>6. ASSUME which = "package" PROVE PackageInv'
  <2>1. [Package!Next]_(Package!vars)
    BY <1>6, Zenon DEF HostNext, hostVars, packageVars, Package!vars
  <2>. QED BY <1>6, <2>1, PackageNext, HostAssumption DEF HostsInv
<1>. QED BY <1>1, <1>2, <1>3, <1>4, <1>5, <1>6 DEF HostsInv

(* Whatever of the host runs: who is told that it is ready, how it is        *)
(* closed, and what releases, services and packages are left, as the five    *)
(* theorems above say of each (readiness.py, host_health.py,                 *)
(* host_bootstrap.py, artifact.py, runtime.py, services.py,                  *)
(* lambda_package.py).                                                       *)
THEOREM HostStands == HostSpec => []HostHolds
<1>1. HostInit => HostsInv
  BY ReadyStarts, ReadyIsProper, AssemblyInit, HostIsProper, ReleasesInit, ServicesInit,
     PackageInit, Zenon DEF HostInit, HostsInv
<1>2. HostsInv /\ [HostNext]_hostVars => HostsInv' BY HostsStep
<1>3. HostsInv => HostHolds
  <2>1. ReleasesInv => Releases!AppearsWhole /\ Releases!AcceptedWasBuilt BY ReleasesSafe
  <2>2. ServicesInv => Services!NothingLeft /\ Services!NeverTwice BY ServicesSafe
  <2>. QED BY <2>1, <2>2, ReadyHolds, ReadyIsProper, HostSafe, PackageSafe, Zenon
       DEF HostsInv, HostHolds
<1>. QED BY <1>1, <1>2, <1>3, PTL DEF HostSpec
=============================================================================
