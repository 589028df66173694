------------------------- MODULE RegistrationProofs -------------------------
(***************************************************************************)
(* For any number of processes, releases, key pairs and faults: config.json  *)
(* never claims what the server has not accepted, and a command that ran     *)
(* alone leaves the two agreeing.                                           *)
(***************************************************************************)
EXTENDS Registration, TLAPS

(* A process writes only what the server has accepted.                      *)
SavesBacked ==
    \A p \in Procs :
        job[p].pc \in {"open", "write", "overwrite"} => Backed(job[p].cfg)

IInv == TypeOK /\ ConfigIsBacked /\ SavesBacked

(* t knows every device of the server, and all it has accepted of them.     *)
Knows(t) ==
    /\ t \in Seq(Device)
    /\ Len(server) <= Len(t)
    /\ \A i \in 1 .. Len(server) :
          server[i].keys \subseteq t[i].keys /\ server[i].vers \subseteq t[i].vers

(* The server of the next state keeps what backs a configuration.           *)
LEMMA BackedStays ==
    ASSUME TypeOK, Knows(server'), NEW c \in Config, Backed(c)
    PROVE  /\ c.id \in 1 .. Len(server')
           /\ c.key \in server'[c.id].keys
           /\ c.ver \in server'[c.id].vers
  <1>1. Len(server) \in Nat /\ Len(server') \in Nat
    BY DEF TypeOK, Knows
  <1>2. c.id \in 1 .. Len(server)
    BY DEF Backed
  <1>3. c.id \in 1 .. Len(server')
    BY <1>1, <1>2 DEF Knows
  <1> QED BY <1>2, <1>3 DEF Backed, Knows

(* A registration adds one device to the server.                            *)
LEMMA RegisteredKnows ==
    ASSUME TypeOK, NEW p \in Procs
    PROVE  Knows(registered(p)) /\ Len(registered(p)) = Len(server) + 1
  <1> DEFINE d == NewDevice(job[p].cfg.key, job[p].cfg.ver)
  <1>1. job[p].cfg \in Config
    BY DEF TypeOK, Job
  <1>2. d \in Device
    BY <1>1 DEF Config, NewDevice, Device
  <1> HIDE DEF d
  <1>3. /\ server \in Seq(Device)
        /\ Append(server, d) \in Seq(Device)
        /\ Len(Append(server, d)) = Len(server) + 1
        /\ \A i \in 1 .. Len(server) : Append(server, d)[i] = server[i]
    BY <1>2 DEF TypeOK
  <1>4. registered(p) = Append(server, d)
    BY DEF registered, d
  <1> QED BY <1>3, <1>4 DEF Knows

(* An accepted update is recorded at its device and takes nothing away.     *)
LEMMA AcceptedKnows ==
    ASSUME TypeOK, NEW p \in Procs, job[p].pc = "patch"
    PROVE  /\ Knows(accepted(p))
           /\ Len(accepted(p)) = Len(server)
           /\ job[p].cfg.key \in accepted(p)[job[p].cfg.id].keys
           /\ job[p].cfg.ver \in accepted(p)[job[p].cfg.id].vers
  <1> DEFINE c == job[p].cfg
             s == server[c.id]
             n == [key |-> c.key, keys |-> s.keys \union {c.key}, vers |-> s.vers \union {c.ver}]
  <1>1. c \in Config /\ c.id \in 1 .. Len(server)
    BY DEF TypeOK, Job
  <1>2. s \in Device
    BY <1>1 DEF TypeOK
  <1>3. c.key \in Nat /\ c.ver \in Nat
    BY <1>1 DEF Config
  <1>4. n \in Device
    BY <1>2, <1>3 DEF Device
  <1>5. accepted(p) = [server EXCEPT ![c.id] = n]
    BY <1>1, <1>2 DEF accepted, Device, TypeOK
  <1>6. s.keys \subseteq n.keys /\ s.vers \subseteq n.vers /\ c.key \in n.keys /\ c.ver \in n.vers
    OBVIOUS
  <1> HIDE DEF n
  <1>7. /\ [server EXCEPT ![c.id] = n] \in Seq(Device)
        /\ Len([server EXCEPT ![c.id] = n]) = Len(server)
        /\ \A i \in 1 .. Len(server) :
              [server EXCEPT ![c.id] = n][i] = IF i = c.id THEN n ELSE server[i]
    BY <1>1, <1>4 DEF TypeOK
  <1>8. Knows(accepted(p))
    BY <1>1, <1>5, <1>6, <1>7 DEF Knows, TypeOK
  <1> QED BY <1>1, <1>5, <1>6, <1>7, <1>8

-----------------------------------------------------------------------------
Saving == {"open", "write", "overwrite"}
Active == {"patch"} \union Saving

(* A job goes on with the configuration it had, and gets no further than it  *)
(* was; or it is in no state to save.                                       *)
Carries(q) ==
    job'[q].pc \in Active =>
        /\ job[q].pc \in Active
        /\ job'[q].cfg = job[q].cfg
        /\ job'[q].pc \in Saving => job[q].pc \in Saving

(* A job has got a configuration that is backed as far as it has come.      *)
Earned(q) ==
    /\ job'[q].pc \in Active => job'[q].cfg.id \in 1 .. Len(server')
    /\ job'[q].pc \in Saving => /\ job'[q].cfg.key \in server'[job'[q].cfg.id].keys
                                /\ job'[q].cfg.ver \in server'[job'[q].cfg.id].vers

(* The server only learns, the file is written from a job that saves, and    *)
(* each job carries or has earned its configuration: the invariant is kept. *)
LEMMA Preserved ==
    ASSUME IInv, Knows(server'),
           installed' \in Versions, keys' \in Nat, faults' \in Nat,
           job' \in [Procs -> Job], file' \in File,
           \/ file'.kind # "valid"
           \/ file' = file
           \/ \E p \in Procs : job[p].pc \in Saving /\ file'.cfg = job[p].cfg,
           \A q \in Procs : Carries(q) \/ Earned(q)
    PROVE  IInv'
  <1> USE DEF IInv
  <1>1. \A c \in Config : Backed(c) => /\ c.id \in 1 .. Len(server')
                                       /\ c.key \in server'[c.id].keys
                                       /\ c.ver \in server'[c.id].vers
    BY BackedStays
  <1>2. \A q \in Procs : job[q].cfg \in Config /\ job'[q].cfg \in Config
    BY DEF TypeOK, Job
  <1>3. /\ Len(server) \in Nat /\ Len(server') \in Nat /\ Len(server) <= Len(server')
        /\ server' \in Seq(Device)
    BY DEF TypeOK, Knows
  <1>4. \A q \in Procs : Earned(q)
    <2> SUFFICES ASSUME NEW q \in Procs, Carries(q) PROVE Earned(q)
      OBVIOUS
    <2>1. job'[q].pc \in Active => job'[q].cfg.id \in 1 .. Len(server')
      BY <1>3 DEF Carries, TypeOK, Active, Saving
    <2>2. job'[q].pc \in Saving => Backed(job[q].cfg) /\ job'[q].cfg = job[q].cfg
      BY DEF Carries, SavesBacked, Active, Saving
    <2> QED BY <1>1, <1>2, <2>1, <2>2 DEF Earned
  <1>5. TypeOK'
    BY <1>3, <1>4 DEF TypeOK, Earned, Active, Saving
  <1>6. SavesBacked'
    BY <1>4 DEF SavesBacked, Earned, Backed, Active, Saving
  <1>7. ConfigIsBacked'
    <2> SUFFICES ASSUME file'.kind = "valid" PROVE Backed(file.cfg)'
      BY DEF ConfigIsBacked
    <2>1. CASE file' = file
      <3>1. file.cfg \in Config /\ Backed(file.cfg)
        BY <2>1 DEF ConfigIsBacked, TypeOK, File
      <3> QED BY <1>1, <2>1, <3>1 DEF Backed
    <2>2. CASE \E p \in Procs : job[p].pc \in Saving /\ file'.cfg = job[p].cfg
      <3>1. PICK p \in Procs : job[p].pc \in Saving /\ file'.cfg = job[p].cfg
        BY <2>2
      <3>2. Backed(job[p].cfg)
        BY <3>1 DEF SavesBacked, Saving
      <3> QED BY <1>1, <1>2, <3>1, <3>2 DEF Backed
    <2> QED BY <2>1, <2>2
  <1> QED BY <1>5, <1>6, <1>7

(* What the server knows of itself.                                         *)
LEMMA KnowsItself ==
    ASSUME TypeOK, server' = server
    PROVE  Knows(server')
  BY DEF TypeOK, Knows

(* A job of known parts is a Job, and so is one moved to another pc.        *)
LEMMA JobMoves ==
    ASSUME TypeOK, NEW p \in Procs,
           NEW pc \in {"off", "post", "patch", "open", "write", "overwrite", "done", "failed"},
           Goto(p, pc)
    PROVE  /\ job' \in [Procs -> Job]
           /\ \A q \in Procs : q # p => job'[q] = job[q]
           /\ job'[p].pc = pc /\ job'[p].cfg = job[p].cfg
  BY DEF TypeOK, Job, Goto

(* Registration starts from no configuration or from one the server accepted. *)
LEMMA InitIInv == Init => IInv
  <1> SUFFICES ASSUME Init PROVE IInv
    OBVIOUS
  <1>1. job \in [Procs -> Job] /\ \A p \in Procs : job[p].pc = "off"
    <2>1. Idle \in Job /\ Idle.pc = "off"
      BY DEF Idle, Job, Commands, NoConfig, Config, Absent, File, Unknown
    <2> QED BY <2>1 DEF Init
  <1>2. CASE file = Absent /\ server = <<>>
    <2>1. file \in File /\ server \in Seq(Device) /\ file.kind # "valid"
      BY <1>2 DEF Absent, File, NoConfig, Config, Unknown
    <2> QED BY <1>1, <2>1 DEF Init, IInv, TypeOK, ConfigIsBacked, SavesBacked
  <1>3. CASE \E v \in Versions \union {Unknown}, r \in {"client", "mesh"} :
                /\ file = Valid([id |-> 1, key |-> 1, ver |-> v, role |-> r])
                /\ server = <<NewDevice(1, v)>>
    <2>1. PICK v \in Versions \union {Unknown}, r \in {"client", "mesh"} :
                /\ file = Valid([id |-> 1, key |-> 1, ver |-> v, role |-> r])
                /\ server = <<NewDevice(1, v)>>
      BY <1>3
    <2>2. v \in Nat
      BY RegistrationConfig DEF Unknown
    <2>3. NewDevice(1, v) \in Device
      BY <2>2 DEF NewDevice, Device
    <2>4. server \in Seq(Device) /\ Len(server) = 1 /\ server[1] = NewDevice(1, v)
      BY <2>1, <2>3
    <2>5. /\ file \in File
          /\ file.cfg.id = 1 /\ file.cfg.key = 1 /\ file.cfg.ver = v
      BY <2>1, <2>2 DEF Valid, File, Config
    <2>6. ConfigIsBacked
      BY <2>4, <2>5 DEF ConfigIsBacked, Backed, NewDevice
    <2> QED BY <1>1, <2>4, <2>5, <2>6 DEF Init, IInv, TypeOK, SavesBacked
  <1> QED BY <1>2, <1>3 DEF Init

(* A command that starts saves nothing yet; what it will update is in the    *)
(* file, which is backed.                                                   *)
LEMMA StartIInv ==
    ASSUME IInv, NEW p \in Procs, NEW command \in Commands, NEW pc \in {"post", "patch"},
           NEW cfg \in Config, Start(p, command, pc, cfg), keys' \in Nat,
           pc = "patch" => cfg.id \in 1 .. Len(server)
    PROVE  IInv'
  <1> DEFINE j == [cmd |-> command, pc |-> pc, cfg |-> cfg, loaded |-> file,
                   alone |-> \A r \in Procs \ {p} : job[r].pc = "off"]
  <1>1. TypeOK
    BY DEF IInv
  <1>2. Knows(server')
    BY <1>1, KnowsItself DEF Start
  <1>3. j \in Job /\ j.pc = pc /\ j.cfg = cfg
    BY <1>1 DEF Job, TypeOK
  <1>4. job' = [q \in Procs |-> IF q = p THEN j ELSE [job[q] EXCEPT !.alone = FALSE]]
    BY DEF Start
  <1> HIDE DEF j
  <1>5. \A q \in Procs : /\ [job[q] EXCEPT !.alone = FALSE] \in Job
                          /\ [job[q] EXCEPT !.alone = FALSE].pc = job[q].pc
                          /\ [job[q] EXCEPT !.alone = FALSE].cfg = job[q].cfg
    BY <1>1 DEF TypeOK, Job
  <1>6. /\ job' \in [Procs -> Job] /\ job'[p] = j
        /\ \A q \in Procs : q # p => job'[q].pc = job[q].pc /\ job'[q].cfg = job[q].cfg
    BY <1>3, <1>4, <1>5
  <1>7. Earned(p)
    BY <1>3, <1>6 DEF Earned, Active, Saving, Start
  <1>8. \A q \in Procs : Carries(q) \/ Earned(q)
    BY <1>6, <1>7 DEF Carries
  <1> QED BY <1>1, <1>2, <1>6, <1>8, Preserved DEF TypeOK, Start

(* Each command starts with a configuration of the right kind.              *)
LEMMA CommandsStart ==
    ASSUME IInv, NEW p \in Procs,
           StartRegister(p) \/ StartMeshRegister(p) \/ StartEnroll(p) \/ StartTunnel(p)
    PROVE  IInv'
  <1>1. /\ installed \in Nat /\ keys \in Nat /\ file \in File
        /\ file.cfg \in Config /\ file.cfg.id \in Nat
    BY RegistrationConfig DEF IInv, TypeOK, File, Config
  <1>2. file.kind = "valid" => file.cfg.id \in 1 .. Len(server)
    BY DEF IInv, ConfigIsBacked, Backed
  <1>3. CASE StartRegister(p) \/ StartMeshRegister(p)
    <2>1. keys' \in Nat
      BY <1>1, <1>3 DEF StartRegister, StartMeshRegister, NewKey
    <2>2. Fresh("client") \in Config /\ Fresh("mesh") \in Config
      BY <1>1, <2>1 DEF Fresh, Config
    <2>3. CASE Start(p, "register", "post", Fresh("client"))
      BY <2>1, <2>2, <2>3, StartIInv DEF Commands
    <2>4. CASE Start(p, "mesh", "post", Fresh("mesh"))
      BY <2>1, <2>2, <2>4, StartIInv DEF Commands
    <2> QED BY <1>3, <2>3, <2>4 DEF StartRegister, StartMeshRegister
  <1>4. CASE StartEnroll(p)
    <2>1. PICK regen \in BOOLEAN :
              /\ IF regen THEN NewKey ELSE UNCHANGED keys
              /\ Start(p, "enroll", "patch",
                       [file.cfg EXCEPT !.key = IF regen THEN keys' ELSE @,
                                        !.ver = installed, !.role = "client"])
      BY <1>4 DEF StartEnroll
    <2>2. keys' \in Nat
      BY <1>1, <2>1 DEF NewKey
    <2>3. [file.cfg EXCEPT !.key = IF regen THEN keys' ELSE @,
                           !.ver = installed, !.role = "client"] \in Config
      BY <1>1, <2>2 DEF Config
    <2>4. [file.cfg EXCEPT !.key = IF regen THEN keys' ELSE @,
                           !.ver = installed, !.role = "client"].id = file.cfg.id
      BY <1>1 DEF Config
    <2> QED BY <1>2, <1>4, <2>1, <2>2, <2>3, <2>4, StartIInv DEF StartEnroll, Commands
  <1>5. CASE StartTunnel(p)
    <2>1. [file.cfg EXCEPT !.ver = installed] \in Config
      BY <1>1 DEF Config
    <2>2. [file.cfg EXCEPT !.ver = installed].id = file.cfg.id
      BY <1>1 DEF Config
    <2>3. keys' \in Nat
      BY <1>1, <1>5 DEF StartTunnel
    <2> QED BY <1>2, <1>5, <2>1, <2>2, <2>3, StartIInv DEF StartTunnel, Commands
  <1> QED BY <1>3, <1>4, <1>5

(* The HTTPS calls: an accepted update is what a save waits for.            *)
LEMMA CallsKeepIInv ==
    ASSUME IInv, NEW p \in Procs,
           PostReg(p) \/ EnrollKey(p) \/ CallFails(p) \/ EnrollWithNewKey(p)
    PROVE  IInv'
  <1>1. TypeOK
    BY DEF IInv
  <1>2. /\ job \in [Procs -> Job] /\ job[p] \in Job /\ job[p].cfg \in Config
        /\ installed \in Versions /\ file \in File /\ keys \in Nat /\ faults \in Nat
    BY <1>1 DEF TypeOK, Job
  <1>3. Knows(registered(p)) /\ Len(registered(p)) = Len(server) + 1
    BY <1>1, RegisteredKnows
  <1>4. Len(server) \in Nat
    BY <1>1 DEF TypeOK
  <1>5. CASE PostReg(p)
    <2>1. Knows(server') /\ Len(server') \in Nat \ {0}
      BY <1>3, <1>4, <1>5 DEF PostReg
    <2>2. /\ job' \in [Procs -> Job]
          /\ job'[p].pc = "patch" /\ job'[p].cfg.id = Len(server')
          /\ \A q \in Procs : q # p => job'[q] = job[q]
      BY <1>2, <1>5, <2>1 DEF PostReg, Job, Config
    <2>3. Earned(p)
      BY <2>1, <2>2 DEF Earned, Saving
    <2>4. \A q \in Procs : Carries(q) \/ Earned(q)
      BY <2>2, <2>3 DEF Carries
    <2> QED BY <1>2, <1>5, <2>1, <2>2, <2>4, Preserved DEF PostReg
  <1>6. CASE EnrollKey(p)
    <2>1. /\ Knows(server')
          /\ job[p].cfg.key \in server'[job[p].cfg.id].keys
          /\ job[p].cfg.ver \in server'[job[p].cfg.id].vers
          /\ Len(server') = Len(server)
      BY <1>1, <1>6, AcceptedKnows DEF EnrollKey
    <2>2. /\ job' \in [Procs -> Job]
          /\ job'[p].pc = "open" /\ job'[p].cfg = job[p].cfg
          /\ \A q \in Procs : q # p => job'[q] = job[q]
      BY <1>1, <1>6, JobMoves DEF EnrollKey
    <2>3. job[p].cfg.id \in 1 .. Len(server')
      BY <1>1, <1>6, <2>1 DEF EnrollKey, TypeOK
    <2>4. Earned(p)
      BY <2>1, <2>2, <2>3 DEF Earned
    <2>5. \A q \in Procs : Carries(q) \/ Earned(q)
      BY <2>2, <2>4 DEF Carries
    <2> QED BY <1>2, <1>6, <2>1, <2>2, <2>5, Preserved DEF EnrollKey
  <1>7. CASE CallFails(p)
    <2>1. Knows(server')
      <3>1. CASE server' = server
        BY <1>1, <3>1, KnowsItself
      <3>2. CASE server' = registered(p)
        BY <1>3, <3>2
      <3>3. CASE job[p].pc = "patch" /\ server' = accepted(p)
        BY <1>1, <3>3, AcceptedKnows
      <3> QED BY <1>7, <3>1, <3>2, <3>3 DEF CallFails
    <2>2. /\ job' \in [Procs -> Job]
          /\ job'[p].pc = "failed" /\ job'[p].cfg = job[p].cfg
          /\ \A q \in Procs : q # p => job'[q] = job[q]
      BY <1>1, <1>7, JobMoves DEF CallFails
    <2>3. \A q \in Procs : Carries(q) \/ Earned(q)
      BY <2>2 DEF Carries, Active, Saving
    <2>4. faults' \in Nat
      BY <1>2, <1>7 DEF CallFails, Fault
    <2> QED BY <1>2, <1>7, <2>1, <2>2, <2>3, <2>4, Preserved DEF CallFails
  <1>8. CASE EnrollWithNewKey(p)
    <2>1. Knows(server')
      BY <1>1, <1>8, KnowsItself DEF EnrollWithNewKey
    <2>2. faults' \in Nat /\ keys' \in Nat
      <3>1. Fault /\ NewKey
        BY <1>8 DEF EnrollWithNewKey
      <3>2. faults' \in Nat
        BY <1>2, <3>1 DEF Fault
      <3>3. keys' \in Nat
        BY <1>2, <3>1 DEF NewKey
      <3> QED BY <3>2, <3>3
    <2> DEFINE k == keys'
               c == [job[p].cfg EXCEPT !.key = k]
               j == [job[p] EXCEPT !.cmd = "enroll again", !.cfg = c]
    <2> HIDE DEF k
    <2>6. c \in Config /\ c.id = job[p].cfg.id
      BY <1>2, <2>2 DEF Config, k
    <2> HIDE DEF c
    <2>7. j \in Job /\ j.pc = job[p].pc /\ j.cfg = c
      BY <1>2, <2>6 DEF Job, Commands
    <2>8. job' = [job EXCEPT ![p] = j]
      BY <1>2, <1>8 DEF EnrollWithNewKey, Job, c, k
    <2> HIDE DEF j
    <2>3. /\ job' \in [Procs -> Job]
          /\ job'[p].pc = "patch" /\ job'[p].cfg.id = job[p].cfg.id
          /\ \A q \in Procs : q # p => job'[q] = job[q]
      BY <1>2, <1>8, <2>6, <2>7, <2>8 DEF EnrollWithNewKey
    <2>4. Earned(p)
      BY <1>1, <1>8, <2>3 DEF Earned, Saving, EnrollWithNewKey, TypeOK
    <2>5. \A q \in Procs : Carries(q) \/ Earned(q)
      BY <2>3, <2>4 DEF Carries
    <2> QED BY <1>2, <1>8, <2>1, <2>2, <2>3, <2>5, Preserved DEF EnrollWithNewKey
  <1> QED BY <1>5, <1>6, <1>7, <1>8

(* Moving a job changes nothing of it but the pc.                           *)
LEMMA MovedJob ==
    ASSUME NEW j \in Job,
           NEW pc \in {"off", "post", "patch", "open", "write", "overwrite", "done", "failed"}
    PROVE  /\ [j EXCEPT !.pc = pc] \in Job
           /\ [j EXCEPT !.pc = pc].pc = pc
           /\ [j EXCEPT !.pc = pc].cfg = j.cfg
  BY DEF Job

(* Saving: the file is torn, or holds what its writer may save.             *)
LEMMA SavesKeepIInv ==
    ASSUME IInv, NEW p \in Procs, Truncate(p) \/ Write(p) \/ SaveFails(p)
    PROVE  IInv'
  <1>1. TypeOK
    BY DEF IInv
  <1>2. /\ job \in [Procs -> Job] /\ \A q \in Procs : job[q] \in Job /\ job[q].cfg \in Config
        /\ installed \in Versions /\ file \in File /\ keys \in Nat /\ faults \in Nat
    BY <1>1 DEF TypeOK, Job
  <1>3. Torn \in File /\ Torn.kind # "valid"
    BY DEF Torn, File, NoConfig, Config, Unknown
  <1>4. Knows(server')
    BY <1>1, KnowsItself DEF Truncate, Write, SaveFails
  <1>5. CASE Truncate(p)
    <2>1. /\ job' \in [Procs -> Job]
          /\ \A q \in Procs : /\ job'[q].cfg = job[q].cfg
                              /\ \/ job'[q] = job[q]
                                 \/ job'[q].pc = "write" /\ job[q].pc \in {"open", "overwrite"}
      <3>1. \A q \in Procs : LET m == [job[q] EXCEPT !.pc = "write"]
                             IN m \in Job /\ m.pc = "write" /\ m.cfg = job[q].cfg
        BY <1>2, MovedJob
      <3>2. \A q \in Procs :
                \/ job[q].pc \in {"open", "overwrite"} /\ job'[q] = [job[q] EXCEPT !.pc = "write"]
                \/ job'[q] = job[q]
        BY <1>5 DEF Truncate
      <3>3. job' = [q \in Procs |-> job'[q]]
        BY <1>5 DEF Truncate
      <3> QED BY <1>2, <3>1, <3>2, <3>3
    <2>2. \A q \in Procs : Carries(q) \/ Earned(q)
      BY <2>1 DEF Carries, Active, Saving
    <2> QED BY <1>2, <1>3, <1>4, <1>5, <2>1, <2>2, Preserved DEF Truncate
  <1>6. CASE Write(p)
    <2>1. PICK end \in {"done", "failed"} :
              /\ end = "failed" => faults < MaxFaults
              /\ faults' = IF end = "failed" THEN faults + 1 ELSE faults
              /\ job' = [q \in Procs |->
                            IF q = p THEN [job[q] EXCEPT !.pc = end]
                            ELSE IF job[q].pc = "write" THEN [job[q] EXCEPT !.pc = "overwrite"]
                            ELSE job[q]]
      BY <1>6 DEF Write
    <2>2. /\ job' \in [Procs -> Job]
          /\ job'[p].pc = end
          /\ \A q \in Procs \ {p} :
                /\ job'[q].cfg = job[q].cfg
                /\ \/ job'[q] = job[q]
                   \/ job'[q].pc = "overwrite" /\ job[q].pc = "write"
      <3>1. \A q \in Procs : LET m == [job[q] EXCEPT !.pc = "overwrite"]
                             IN m \in Job /\ m.pc = "overwrite" /\ m.cfg = job[q].cfg
        BY <1>2, MovedJob
      <3>2. LET m == [job[p] EXCEPT !.pc = end] IN m \in Job /\ m.pc = end
        <4>1. end \in {"off", "post", "patch", "open", "write", "overwrite", "done", "failed"}
          OBVIOUS
        <4>2. job[p] \in Job
          BY <1>2
        <4> QED BY <4>1, <4>2, MovedJob
      <3>3. /\ job'[p] = [job[p] EXCEPT !.pc = end]
            /\ \A q \in Procs \ {p} :
                  \/ job[q].pc = "write" /\ job'[q] = [job[q] EXCEPT !.pc = "overwrite"]
                  \/ job'[q] = job[q]
        BY <2>1
      <3>4. job' = [q \in Procs |-> job'[q]]
        BY <2>1
      <3>5. \A q \in Procs : job'[q] \in Job
        BY <1>2, <3>1, <3>2, <3>3
      <3>6. job' \in [Procs -> Job]
        BY <3>4, <3>5
      <3> QED BY <3>1, <3>2, <3>3, <3>6
    <2>3. \A q \in Procs : Carries(q) \/ Earned(q)
      BY <2>2 DEF Carries, Active, Saving
    <2>4. faults' \in Nat
      BY <1>2, <2>1
    <2>5. /\ file' \in File
          /\ file'.kind # "valid" \/ file'.cfg = job[p].cfg
      <3>1. job[p].cfg \in Config
        BY <1>2
      <3>2. Valid(job[p].cfg) \in File /\ Valid(job[p].cfg).cfg = job[p].cfg
        BY <3>1 DEF Valid, File
      <3>3. file' = Valid(job[p].cfg) \/ file' = Torn
        BY <1>6 DEF Write
      <3> QED BY <1>3, <3>2, <3>3
    <2>6. job[p].pc \in Saving
      BY <1>6 DEF Write, Saving
    <2> QED BY <1>2, <1>4, <1>6, <2>2, <2>3, <2>4, <2>5, <2>6, Preserved DEF Write
  <1>7. CASE SaveFails(p)
    <2>1. file' \in {file, Torn}
      BY <1>7 DEF SaveFails
    <2>2. /\ job' \in [Procs -> Job]
          /\ job'[p].pc = "failed"
          /\ \A q \in Procs : q # p => job'[q] = job[q]
      BY <1>1, <1>7, JobMoves DEF SaveFails
    <2>3. \A q \in Procs : Carries(q) \/ Earned(q)
      BY <2>2 DEF Carries, Active, Saving
    <2>4. faults' \in Nat
      BY <1>2, <1>7 DEF SaveFails, Fault
    <2> QED BY <1>2, <1>3, <1>4, <1>7, <2>1, <2>2, <2>3, <2>4, Preserved DEF SaveFails
  <1> QED BY <1>5, <1>6, <1>7

(* A process that is gone saves nothing.                                    *)
LEMMA LeavingKeepsIInv ==
    ASSUME IInv, NEW p \in Procs, Killed(p) \/ Ends(p)
    PROVE  IInv'
  <1>1. TypeOK
    BY DEF IInv
  <1>2. Idle \in Job /\ Idle.pc = "off"
    BY DEF Idle, Job, Commands, NoConfig, Config, Absent, File, Unknown
  <1>3. /\ job' \in [Procs -> Job]
        /\ job'[p].pc = "off"
        /\ \A q \in Procs : q # p => job'[q] = job[q]
    BY <1>1, <1>2 DEF TypeOK, Killed, Ends
  <1>4. \A q \in Procs : Carries(q) \/ Earned(q)
    BY <1>3 DEF Carries, Active, Saving
  <1>5. faults' \in Nat /\ UNCHANGED <<installed, server, file, keys>>
    BY <1>1 DEF TypeOK, Killed, Ends, Fault
  <1>6. Knows(server')
    BY <1>1, <1>5, KnowsItself
  <1> QED BY <1>1, <1>3, <1>4, <1>5, <1>6, Preserved DEF TypeOK

(* The invariant is kept by every step.                                     *)
LEMMA NextIInv == IInv /\ [Next]_vars => IInv'
  <1> SUFFICES ASSUME IInv, [Next]_vars PROVE IInv'
    OBVIOUS
  <1>1. CASE Upgrade
    <2>1. /\ installed' \in Versions /\ faults' \in Nat
          /\ UNCHANGED <<server, file, job, keys>>
      BY <1>1 DEF Upgrade, Fault, IInv, TypeOK
    <2> QED BY <2>1 DEF IInv, TypeOK, ConfigIsBacked, SavesBacked, Backed
  <1>2. CASE \E p \in Procs :
                StartRegister(p) \/ StartMeshRegister(p) \/ StartEnroll(p) \/ StartTunnel(p)
    BY <1>2, CommandsStart
  <1>3. CASE \E p \in Procs : PostReg(p) \/ EnrollKey(p) \/ CallFails(p) \/ EnrollWithNewKey(p)
    BY <1>3, CallsKeepIInv
  <1>4. CASE \E p \in Procs : Truncate(p) \/ Write(p) \/ SaveFails(p)
    BY <1>4, SavesKeepIInv
  <1>5. CASE \E p \in Procs : Killed(p) \/ Ends(p)
    BY <1>5, LeavingKeepsIInv
  <1>6. CASE UNCHANGED vars
    BY <1>6 DEF vars, IInv, TypeOK, ConfigIsBacked, SavesBacked, Backed
  <1> QED BY <1>1, <1>2, <1>3, <1>4, <1>5, <1>6 DEF Next, Runs

(* Every reachable state satisfies the inductive invariant.                 *)
LEMMA Invariance == Spec => []IInv
  BY InitIInv, NextIInv, PTL DEF Spec

(* Types, and an update names a device the server has registered.           *)
THEOREM TypeCorrect == Spec => []TypeOK
  BY Invariance, PTL DEF IInv

(* Whatever runs at once and stops in between, config.json names only a      *)
(* device, a key and a version that the server has accepted.                *)
THEOREM OnlyBackedConfigs == Spec => []ConfigIsBacked
  BY Invariance, PTL DEF IInv

-----------------------------------------------------------------------------
(* A command beside which no other ran.                                       *)

(* What it is about to save keeps the device, the role and, in the refresh,   *)
(* the key of what it found.                                                *)
Keeps(cmd, cfg, found) ==
    /\ cmd \notin {"register", "mesh"} => cfg.id = found.id /\ cfg.role = found.role
    /\ cmd = "refresh" => cfg.key = found.key

(* The account has its key once the update is accepted, and the file its      *)
(* configuration once it is written.                                        *)
InStep(p) ==
    /\ \A r \in Procs \ {p} : job[r].pc = "off"
    /\ job[p].pc # "overwrite"
    /\ job[p].pc = "post" => job[p].cmd \in {"register", "mesh"}
    /\ job[p].pc \in {"open", "write", "done"} => server[job[p].cfg.id].key = job[p].cfg.key
    /\ job[p].pc = "done" => file = Valid(job[p].cfg)
    /\ Keeps(job[p].cmd, job[p].cfg, job[p].loaded.cfg)

AloneInv == \A p \in Procs : job[p].alone => InStep(p)

(* A process that has no one beside it is the one that takes the step.        *)
LEMMA OwnStep ==
    ASSUME AloneInv, NEW p \in Procs, NEW q \in Procs, job[p].alone, job[q].pc # "off"
    PROVE  p = q
  BY DEF AloneInv, InStep

(* Starting: alone only if nothing else is running.                           *)
LEMMA StartAlone ==
    ASSUME TypeOK, NEW q \in Procs, NEW cmd, NEW pc \in {"post", "patch"}, NEW cfg,
           Start(q, cmd, pc, cfg), Keeps(cmd, cfg, file.cfg),
           pc = "post" => cmd \in {"register", "mesh"}
    PROVE  AloneInv'
  <1> DEFINE only == \A r \in Procs \ {q} : job[r].pc = "off"
             j == [cmd |-> cmd, pc |-> pc, cfg |-> cfg, loaded |-> file, alone |-> only]
  <1>1. job' = [r \in Procs |-> IF r = q THEN j ELSE [job[r] EXCEPT !.alone = FALSE]]
    BY DEF Start
  <1>2. only => \A r \in Procs \ {q} : job[r].pc = "off"
    OBVIOUS
  <1> HIDE DEF only
  <1>3. j.pc = pc /\ j.cmd = cmd /\ j.cfg = cfg /\ j.loaded = file /\ j.alone = only
    OBVIOUS
  <1> HIDE DEF j
  <1>4. \A r \in Procs \ {q} : job'[r].alone = FALSE /\ job'[r].pc = job[r].pc
    BY <1>1 DEF TypeOK, Job
  <1>5. job'[q] = j BY <1>1
  <1> SUFFICES ASSUME NEW p \in Procs, job'[p].alone PROVE InStep(p)'
    BY DEF AloneInv
  <1>6. p = q BY <1>4
  <1>7. \A r \in Procs \ {q} : job'[r].pc = "off"
    BY <1>2, <1>3, <1>4, <1>5, <1>6
  <1> QED BY <1>3, <1>5, <1>6, <1>7 DEF InStep, Keeps

(* Each command starts from what it finds.                                    *)
LEMMA CommandsStartAlone ==
    ASSUME TypeOK, NEW q \in Procs,
           StartRegister(q) \/ StartMeshRegister(q) \/ StartEnroll(q) \/ StartTunnel(q)
    PROVE  AloneInv'
  <1>1. file.cfg \in Config
    BY DEF TypeOK, File
  <1>2. CASE StartRegister(q)
    BY <1>2, StartAlone DEF StartRegister, Keeps
  <1>3. CASE StartMeshRegister(q)
    BY <1>3, StartAlone DEF StartMeshRegister, Keeps
  <1>4. CASE StartEnroll(q)
    <2>1. PICK key :
              Start(q, "enroll", "patch",
                    [file.cfg EXCEPT !.key = key, !.ver = installed, !.role = "client"])
      <3>1. PICK regen \in BOOLEAN :
                Start(q, "enroll", "patch",
                      [file.cfg EXCEPT !.key = IF regen THEN keys' ELSE @,
                                       !.ver = installed, !.role = "client"])
        BY <1>4 DEF StartEnroll
      <3> QED BY <3>1
    <2> DEFINE c == [file.cfg EXCEPT !.key = key, !.ver = installed, !.role = "client"]
    <2>2. file.cfg.role = "client" BY <1>4 DEF StartEnroll
    <2>3. c.id = file.cfg.id /\ c.role = file.cfg.role BY <1>1, <2>2 DEF Config
    <2>4. Start(q, "enroll", "patch", c) BY <2>1
    <2> HIDE DEF c
    <2>5. Keeps("enroll", c, file.cfg) BY <2>3 DEF Keeps
    <2> QED BY <2>4, <2>5, StartAlone
  <1>5. CASE StartTunnel(q)
    <2> DEFINE c == [file.cfg EXCEPT !.ver = installed]
    <2>1. c.id = file.cfg.id /\ c.role = file.cfg.role /\ c.key = file.cfg.key
      BY <1>1 DEF Config
    <2>2. Start(q, "refresh", "patch", c) BY <1>5 DEF StartTunnel
    <2> HIDE DEF c
    <2>3. Keeps("refresh", c, file.cfg) BY <2>1 DEF Keeps
    <2> QED BY <2>2, <2>3, StartAlone
  <1> QED BY <1>2, <1>3, <1>4, <1>5

(* The calls of one process on the account.                                   *)
LEMMA CallsAlone ==
    ASSUME TypeOK, AloneInv, NEW q \in Procs,
           PostReg(q) \/ EnrollKey(q) \/ CallFails(q) \/ EnrollWithNewKey(q)
    PROVE  AloneInv'
  <1> SUFFICES ASSUME NEW p \in Procs, job'[p].alone PROVE InStep(p)'
    BY DEF AloneInv
  <1>1. job[q].pc \in {"post", "patch"}
    BY DEF PostReg, EnrollKey, CallFails, EnrollWithNewKey
  <1>2. /\ job \in [Procs -> Job] /\ \A r \in Procs : job[r] \in Job /\ job[r].cfg \in Config
        /\ job[q].pc = "patch" => job[q].cfg.id \in 1 .. Len(server)
    BY DEF TypeOK, Job
  <1>3. \A r \in Procs : job'[r].alone = job[r].alone /\ (r # q => job'[r] = job[r])
    <2>1. CASE PostReg(q) BY <1>2, <2>1 DEF PostReg, Job
    <2>2. CASE EnrollKey(q) BY <1>2, <2>2 DEF EnrollKey, Goto, Job
    <2>3. CASE CallFails(q) BY <1>2, <2>3 DEF CallFails, Goto, Job
    <2>4. CASE EnrollWithNewKey(q) BY <1>2, <2>4 DEF EnrollWithNewKey, Job
    <2> QED BY <2>1, <2>2, <2>3, <2>4
  <1>4. p = q BY <1>1, <1>3, OwnStep
  <1>5. InStep(p) BY <1>3 DEF AloneInv
  <1>6. \A r \in Procs \ {p} : job'[r].pc = "off" BY <1>3, <1>4, <1>5 DEF InStep
  <1>7. CASE PostReg(p)
    <2>1. /\ job[p].pc = "post" /\ job'[p].pc = "patch" /\ job'[p].cmd = job[p].cmd
      BY <1>2, <1>7 DEF PostReg, Job
    <2>2. job'[p].cmd \in {"register", "mesh"} BY <1>5, <2>1 DEF InStep
    <2> QED BY <1>6, <2>1, <2>2 DEF InStep, Keeps
  <1>8. CASE EnrollKey(p)
    <2>1. /\ job'[p].pc = "open" /\ job'[p].cmd = job[p].cmd
          /\ job'[p].cfg = job[p].cfg /\ job'[p].loaded = job[p].loaded
      BY <1>2, <1>8 DEF EnrollKey, Goto, Job
    <2>2. server'[job[p].cfg.id].key = job[p].cfg.key
      <3>1. job[p].cfg.id \in 1 .. Len(server) BY <1>2, <1>4, <1>8 DEF EnrollKey
      <3>2. server \in Seq(Device) /\ DOMAIN server = 1 .. Len(server) BY DEF TypeOK
      <3> QED BY <1>8, <3>1, <3>2 DEF EnrollKey, accepted
    <2> QED BY <1>5, <1>6, <2>1, <2>2 DEF InStep
  <1>9. CASE CallFails(p)
    <2>1. /\ job'[p].pc = "failed" /\ job'[p].cmd = job[p].cmd
          /\ job'[p].cfg = job[p].cfg /\ job'[p].loaded = job[p].loaded
      BY <1>2, <1>9 DEF CallFails, Goto, Job
    <2> QED BY <1>5, <1>6, <2>1 DEF InStep
  <1>10. CASE EnrollWithNewKey(p)
    <2>1. /\ job[p].cmd = "enroll" /\ job[p].pc = "patch"
          /\ job'[p].pc = "patch" /\ job'[p].cmd = "enroll again"
          /\ job'[p].cfg.id = job[p].cfg.id /\ job'[p].cfg.role = job[p].cfg.role
          /\ job'[p].loaded = job[p].loaded
      <3>1. job' = [job EXCEPT ![p].cmd = "enroll again", ![p].cfg.key = keys']
        BY <1>10 DEF EnrollWithNewKey
      <3>2. job[p] \in Job /\ job[p].cfg \in Config BY <1>2
      <3>3. job[p].cmd = "enroll" /\ job[p].pc = "patch" BY <1>10 DEF EnrollWithNewKey
      <3>4. job'[p] = [job[p] EXCEPT !.cmd = "enroll again", !.cfg.key = keys']
        BY <1>2, <3>1
      <3>5. /\ job'[p].pc = job[p].pc /\ job'[p].cmd = "enroll again"
            /\ job'[p].loaded = job[p].loaded
            /\ job'[p].cfg = [job[p].cfg EXCEPT !.key = keys']
        BY <3>2, <3>4 DEF Job
      <3>6. job'[p].cfg.id = job[p].cfg.id /\ job'[p].cfg.role = job[p].cfg.role
        BY <3>2, <3>5 DEF Config
      <3> QED BY <3>3, <3>5, <3>6
    <2> QED BY <1>5, <1>6, <2>1 DEF InStep, Keeps
  <1> QED BY <1>4, <1>7, <1>8, <1>9, <1>10

(* Saving: the configuration it saves is the one the account agrees with.     *)
LEMMA SavesAlone ==
    ASSUME TypeOK, AloneInv, NEW q \in Procs, Truncate(q) \/ Write(q) \/ SaveFails(q)
    PROVE  AloneInv'
  <1> SUFFICES ASSUME NEW p \in Procs, job'[p].alone PROVE InStep(p)'
    BY DEF AloneInv
  <1>1. job[q].pc \in {"open", "write", "overwrite"} /\ server' = server
    BY DEF Truncate, Write, SaveFails
  <1>2. job \in [Procs -> Job] /\ \A r \in Procs : job[r] \in Job
    BY DEF TypeOK
  <1>3. \A r \in Procs :
            /\ job'[r].alone = job[r].alone /\ job'[r].cmd = job[r].cmd
            /\ job'[r].cfg = job[r].cfg /\ job'[r].loaded = job[r].loaded
            /\ r # q /\ job[r].pc = "off" => job'[r].pc = "off"
    <2>1. CASE Truncate(q) BY <1>2, <2>1 DEF Truncate, Job
    <2>2. CASE Write(q)
      <3>1. PICK end :
                job' = [r \in Procs |->
                           IF r = q THEN [job[r] EXCEPT !.pc = end]
                           ELSE IF job[r].pc = "write" THEN [job[r] EXCEPT !.pc = "overwrite"]
                           ELSE job[r]]
        BY <2>2 DEF Write
      <3> QED BY <1>2, <3>1 DEF Job
    <2>3. CASE SaveFails(q) BY <1>2, <2>3 DEF SaveFails, Goto, Job
    <2> QED BY <2>1, <2>2, <2>3
  <1>4. p = q BY <1>1, <1>3, OwnStep
  <1>5. InStep(p) BY <1>3 DEF AloneInv
  <1>6. \A r \in Procs \ {p} : job'[r].pc = "off" BY <1>3, <1>4, <1>5 DEF InStep
  <1>7. Keeps(job'[p].cmd, job'[p].cfg, job'[p].loaded.cfg) BY <1>3, <1>5 DEF InStep
  <1>8. CASE Truncate(p)
    <2>1. job'[p].pc = "write" /\ job[p].pc = "open" BY <1>2, <1>8 DEF Truncate, Job
    <2> QED BY <1>1, <1>3, <1>5, <1>6, <1>7, <2>1 DEF InStep
  <1>9. CASE Write(p)
    <2>1. job[p].pc = "write" BY <1>5, <1>9 DEF InStep, Write
    <2>2. file' = Valid(job[p].cfg) BY <1>9, <2>1 DEF Write
    <2>3. job'[p].pc \in {"done", "failed"}
      <3>1. PICK end \in {"done", "failed"} :
                job' = [r \in Procs |->
                           IF r = p THEN [job[r] EXCEPT !.pc = end]
                           ELSE IF job[r].pc = "write" THEN [job[r] EXCEPT !.pc = "overwrite"]
                           ELSE job[r]]
        BY <1>9 DEF Write
      <3>2. job'[p] = [job[p] EXCEPT !.pc = end] BY <3>1
      <3>3. job[p] \in Job BY <1>2
      <3> QED BY <3>2, <3>3, MovedJob
    <2> QED BY <1>1, <1>3, <1>5, <1>6, <1>7, <2>1, <2>2, <2>3 DEF InStep
  <1>10. CASE SaveFails(p)
    <2>1. job'[p].pc = "failed" BY <1>2, <1>10 DEF SaveFails, Goto, Job
    <2> QED BY <1>6, <1>7, <2>1 DEF InStep
  <1> QED BY <1>4, <1>8, <1>9, <1>10

(* A process that is gone was the one alone, or there was none.               *)
LEMMA LeavingAlone ==
    ASSUME TypeOK, AloneInv, NEW q \in Procs, Killed(q) \/ Ends(q)
    PROVE  AloneInv'
  <1>1. job' = [job EXCEPT ![q] = Idle] /\ job[q].pc # "off"
    BY DEF Killed, Ends
  <1>2. Idle.alone = FALSE BY DEF Idle
  <1> SUFFICES ASSUME NEW p \in Procs, job'[p].alone PROVE FALSE
    BY DEF AloneInv
  <1>3. p # q BY <1>1, <1>2 DEF TypeOK
  <1>4. job'[p] = job[p] BY <1>1, <1>3 DEF TypeOK
  <1> QED BY <1>1, <1>3, <1>4, OwnStep

(* commands.rs: a command beside which no other ran, and which reports         *)
(* success, leaves config.json and the account agreeing, whatever earlier      *)
(* commands left behind, for any number of processes, releases and faults.    *)
THEOREM FileAndAccountAgree == Spec => []CompletedAgrees
  <1>1. Init => AloneInv
    BY DEF Init, AloneInv, Idle
  <1>2. TypeOK /\ AloneInv /\ [Next]_vars => AloneInv'
    <2> SUFFICES ASSUME TypeOK, AloneInv, [Next]_vars PROVE AloneInv'
      OBVIOUS
    <2>1. CASE Upgrade \/ UNCHANGED vars
      BY <2>1 DEF Upgrade, vars, AloneInv, InStep
    <2>2. CASE \E p \in Procs :
                  StartRegister(p) \/ StartMeshRegister(p) \/ StartEnroll(p) \/ StartTunnel(p)
      BY <2>2, CommandsStartAlone
    <2>3. CASE \E p \in Procs : PostReg(p) \/ EnrollKey(p) \/ CallFails(p) \/ EnrollWithNewKey(p)
      BY <2>3, CallsAlone
    <2>4. CASE \E p \in Procs : Truncate(p) \/ Write(p) \/ SaveFails(p)
      BY <2>4, SavesAlone
    <2>5. CASE \E p \in Procs : Killed(p) \/ Ends(p)
      BY <2>5, LeavingAlone
    <2> QED BY <2>1, <2>2, <2>3, <2>4, <2>5 DEF Next, Runs
  <1>3. AloneInv => CompletedAgrees
    BY DEF AloneInv, InStep, Keeps, CompletedAgrees
  <1> QED BY <1>1, <1>2, <1>3, TypeCorrect, PTL DEF Spec

=============================================================================
