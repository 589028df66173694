---------------------------- MODULE Registration ----------------------------
(***************************************************************************)
(* register, mesh_register, enroll and the refresh that run_tunnel does     *)
(* after a client version change (commands.rs), against the account on      *)
(* Cloudflare's server and config.json (config.rs).  Each command is a      *)
(* process; nothing locks the file.  Saving is fs::write: it truncates the   *)
(* file, then writes it, and may stop in between.  A key pair, a device id   *)
(* and a release are numbers; a token goes with its id.                     *)
(***************************************************************************)
EXTENDS Naturals, Sequences

CONSTANTS
    Procs,          \* processes that may run at once
    Versions,       \* releases of the program
    MaxKeys,        \* bound: key pairs generated
    MaxFaults       \* bound: faults, answers "invalid key" and upgrades

ASSUME RegistrationConfig ==
    /\ Versions \subseteq Nat \ {0} /\ Versions # {}
    /\ {MaxKeys, MaxFaults} \subseteq Nat

VARIABLES
    installed,      \* CLIENT_VERSION of a process started now
    server,         \* by device id: its key, and history: keys and versions it accepted
    file,           \* config.json
    job,            \* the command each process runs
    keys,           \* key pairs generated so far
    faults          \* faults so far

vars == <<installed, server, file, job, keys, faults>>

Unknown == 0        \* a version that release_version does not parse

Config == [id : Nat, key : Nat, ver : Nat, role : {"client", "mesh"}]

NoConfig == [id |-> 0, key |-> 0, ver |-> Unknown, role |-> "client"]

File == [kind : {"absent", "torn", "valid"}, cfg : Config]

Absent == [kind |-> "absent", cfg |-> NoConfig]
Torn == [kind |-> "torn", cfg |-> NoConfig]
Valid(c) == [kind |-> "valid", cfg |-> c]

Device == [key : Nat, keys : SUBSET Nat, vers : SUBSET Nat]

Commands == {"none", "register", "mesh", "enroll", "enroll again", "refresh"}

Job == [cmd : Commands,
        pc : {"off", "post", "patch", "open", "write", "overwrite", "done", "failed"},
        cfg : Config,       \* what it will save
        loaded : File,      \* what it found
        alone : BOOLEAN]    \* history: no other process ran beside it

Idle == [cmd |-> "none", pc |-> "off", cfg |-> NoConfig, loaded |-> Absent, alone |-> FALSE]

NewDevice(k, v) == [key |-> k, keys |-> {k}, vers |-> {v}]

(* No configuration yet, or one that an earlier release saved.              *)
Init ==
    /\ installed \in Versions
    /\ job = [p \in Procs |-> Idle]
    /\ keys = 1 /\ faults = 0
    /\ \/ file = Absent /\ server = <<>>
       \/ \E v \in Versions \union {Unknown}, r \in {"client", "mesh"} :
             /\ file = Valid([id |-> 1, key |-> 1, ver |-> v, role |-> r])
             /\ server = <<NewDevice(1, v)>>

-----------------------------------------------------------------------------
Fault == faults < MaxFaults /\ faults' = faults + 1

Upgrade ==
    /\ Fault
    /\ installed' \in Versions \ {installed}
    /\ UNCHANGED <<server, file, job, keys>>

Goto(p, pc) == job' = [job EXCEPT ![p].pc = pc]

NewKey == keys < MaxKeys /\ keys' = keys + 1

(* A process is started; p is free.                                         *)
Start(p, command, pc, cfg) ==
    /\ job[p].pc = "off"
    /\ job' = [q \in Procs |->
                  IF q = p
                  THEN [cmd |-> command, pc |-> pc, cfg |-> cfg, loaded |-> file,
                        alone |-> \A r \in Procs \ {p} : job[r].pc = "off"]
                  ELSE [job[q] EXCEPT !.alone = FALSE]]
    /\ UNCHANGED <<installed, server, file, faults>>

Fresh(role) == [id |-> 0, key |-> keys', ver |-> installed, role |-> role]

(* register: over an existing file only with the user's consent.            *)
StartRegister(p) == NewKey /\ Start(p, "register", "post", Fresh("client"))

(* mesh_register refuses an existing file.                                  *)
StartMeshRegister(p) ==
    /\ file.kind = "absent"
    /\ NewKey
    /\ Start(p, "mesh", "post", Fresh("mesh"))

(* enroll, with or without --regen-key.  build_app_config makes a client.   *)
StartEnroll(p) ==
    /\ file.kind = "valid"
    /\ file.cfg.role = "client"
    /\ \E regen \in BOOLEAN :
          /\ IF regen THEN NewKey ELSE UNCHANGED keys
          /\ Start(p, "enroll", "patch",
                   [file.cfg EXCEPT !.key = IF regen THEN keys' ELSE @,
                                    !.ver = installed, !.role = "client"])

(* Mutant of registration_refresh_required: only a newer release refreshes. *)
refresh_required_if_newer(cfg) == cfg.ver # Unknown /\ cfg.ver < installed

registration_refresh_required(cfg) == cfg.ver # Unknown /\ cfg.ver # installed

(* Mutant of StartTunnel: the new version is saved before the update.       *)
StartTunnelSavesFirst(p) ==
    /\ file.kind = "valid"
    /\ registration_refresh_required(file.cfg)
    /\ Start(p, "refresh", "open", [file.cfg EXCEPT !.ver = installed])
    /\ UNCHANGED keys

(* run_tunnel for the role in the file: refresh the registration first.     *)
StartTunnel(p) ==
    /\ file.kind = "valid"
    /\ registration_refresh_required(file.cfg)
    /\ Start(p, "refresh", "patch", [file.cfg EXCEPT !.ver = installed])
    /\ UNCHANGED keys

-----------------------------------------------------------------------------
(* The HTTPS calls.                                                         *)

registered(p) == Append(server, NewDevice(job[p].cfg.key, job[p].cfg.ver))

accepted(p) ==
    [server EXCEPT ![job[p].cfg.id] =
        [key |-> job[p].cfg.key,
         keys |-> @.keys \union {job[p].cfg.key},
         vers |-> @.vers \union {job[p].cfg.ver}]]

(* register of cloudflare.rs or mesh.rs: a new device with the new key.     *)
PostReg(p) ==
    /\ job[p].pc = "post"
    /\ server' = registered(p)
    /\ job' = [job EXCEPT ![p].pc = "patch", ![p].cfg.id = Len(server')]
    /\ UNCHANGED <<installed, file, keys, faults>>

(* enroll_key.                                                              *)
EnrollKey(p) ==
    /\ job[p].pc = "patch"
    /\ server' = accepted(p)
    /\ Goto(p, "open")
    /\ UNCHANGED <<installed, file, keys, faults>>

(* Either call fails, before the server processed it or after.              *)
CallFails(p) ==
    /\ Fault
    /\ \/ job[p].pc = "post" /\ server' \in {server, registered(p)}
       \/ job[p].pc = "patch" /\ server' \in {server, accepted(p)}
    /\ Goto(p, "failed")
    /\ UNCHANGED <<installed, file, keys>>

(* Mutant of EnrollWithNewKey: the new private key is not kept.             *)
EnrollForgetsKey(p) ==
    /\ job[p].cmd = "enroll" /\ job[p].pc = "patch"
    /\ Fault
    /\ NewKey
    /\ server' = [server EXCEPT ![job[p].cfg.id].key = keys',
                                ![job[p].cfg.id].keys = @ \union {keys'}]
    /\ Goto(p, "open")
    /\ UNCHANGED <<installed, file>>

(* The server finds the key invalid; the user has a new one generated, and   *)
(* it is enrolled once more.                                                *)
EnrollWithNewKey(p) ==
    /\ job[p].cmd = "enroll" /\ job[p].pc = "patch"
    /\ Fault
    /\ NewKey
    /\ job' = [job EXCEPT ![p].cmd = "enroll again", ![p].cfg.key = keys']
    /\ UNCHANGED <<installed, server, file>>

-----------------------------------------------------------------------------
(* save and save_sensitive.                                                 *)

(* fs::write opens the file with truncation.  A writer that had opened it    *)
(* before writes into an empty file again.                                  *)
Truncate(p) ==
    /\ job[p].pc = "open"
    /\ file' = Torn
    /\ job' = [q \in Procs |->
                  IF q = p THEN [job[q] EXCEPT !.pc = "write"]
                  ELSE IF job[q].pc = "overwrite" THEN [job[q] EXCEPT !.pc = "write"]
                  ELSE job[q]]
    /\ UNCHANGED <<installed, server, keys, faults>>

(* The contents are written, over those of a process that opened the file    *)
(* first and wrote last, if there is one, whose longer contents may show     *)
(* behind them.  save_sensitive may still fail to restrict the permissions. *)
Write(p) ==
    /\ job[p].pc \in {"write", "overwrite"}
    /\ \/ file' = Valid(job[p].cfg)
       \/ job[p].pc = "overwrite" /\ file' = Torn
    /\ \E end \in IF job[p].cmd \in {"enroll", "enroll again"} THEN {"done"} ELSE {"done", "failed"} :
          /\ end = "failed" => faults < MaxFaults
          /\ faults' = IF end = "failed" THEN faults + 1 ELSE faults
          /\ job' = [q \in Procs |->
                        IF q = p THEN [job[q] EXCEPT !.pc = end]
                        ELSE IF job[q].pc = "write" THEN [job[q] EXCEPT !.pc = "overwrite"]
                        ELSE job[q]]
    /\ UNCHANGED <<installed, server, keys>>

(* The file cannot be opened, or the write stops short.                     *)
SaveFails(p) ==
    /\ Fault
    /\ \/ job[p].pc = "open" /\ UNCHANGED file
       \/ job[p].pc = "write" /\ UNCHANGED file
       \/ job[p].pc = "overwrite" /\ file' \in {file, Torn}
    /\ Goto(p, "failed")
    /\ UNCHANGED <<installed, server, keys>>

Killed(p) ==
    /\ Fault
    /\ job[p].pc \notin {"off", "done", "failed"}
    /\ job' = [job EXCEPT ![p] = Idle]
    /\ UNCHANGED <<installed, server, file, keys>>

Ends(p) ==
    /\ job[p].pc \in {"done", "failed"}
    /\ job' = [job EXCEPT ![p] = Idle]
    /\ UNCHANGED <<installed, server, file, keys, faults>>

Runs(p) == PostReg(p) \/ EnrollKey(p) \/ CallFails(p) \/ Truncate(p) \/ Write(p) \/ Ends(p)

Next ==
    \/ Upgrade
    \/ \E p \in Procs :
          \/ StartRegister(p) \/ StartMeshRegister(p) \/ StartEnroll(p) \/ StartTunnel(p)
          \/ EnrollWithNewKey(p) \/ SaveFails(p) \/ Killed(p)
          \/ Runs(p)

Spec == Init /\ [][Next]_vars

(* A started process runs, the machine is restarted now and then, and the    *)
(* server is not unreachable every time.                                    *)
FairSpec ==
    /\ Spec
    /\ \A p \in Procs : WF_vars(Runs(p)) /\ WF_vars(StartTunnel(p)) /\ SF_vars(EnrollKey(p))

-----------------------------------------------------------------------------
(* Types; and an update always names a device that the server registered.   *)
TypeOK ==
    /\ installed \in Versions
    /\ server \in Seq(Device)
    /\ file \in File
    /\ job \in [Procs -> Job]
    /\ keys \in Nat /\ faults \in Nat
    /\ \A p \in Procs : job[p].pc \in {"patch", "open", "write", "overwrite"} =>
          job[p].cfg.id \in 1 .. Len(server)

(* What a configuration claims was once true of the server: the device is    *)
(* registered, and its key and the version recorded with it were accepted.  *)
Backed(c) ==
    /\ c.id \in 1 .. Len(server)
    /\ c.key \in server[c.id].keys
    /\ c.ver \in server[c.id].vers

(* Whatever runs at once and stops in between, config.json never names a     *)
(* device, a key or a version the server has not accepted: everything is    *)
(* persisted after the update that makes it so.                             *)
ConfigIsBacked == file.kind = "valid" => Backed(file.cfg)

(* A command that no other ran beside and that reports success leaves        *)
(* config.json and the account with the same key, whatever earlier commands  *)
(* left behind; enroll and the refresh keep the device and its role, and    *)
(* the refresh keeps its key.                                               *)
CompletedAgrees ==
    \A p \in Procs : job[p].pc = "done" /\ job[p].alone =>
        LET c == job[p].cfg
            was == job[p].loaded.cfg
        IN /\ file = Valid(c)
           /\ server[c.id].key = c.key
           /\ job[p].cmd \notin {"register", "mesh"} => c.id = was.id /\ c.role = was.role
           /\ job[p].cmd = "refresh" => c.key = was.key

(* A version change, up or down, reaches the server and the file in the end, *)
(* as long as there is a file to start from.                                *)
RefreshReachesVersion ==
    \A v \in Versions :
        <>[](installed = v) =>
            <>[](file.kind = "valid" => file.cfg.ver \in {Unknown, v})

=============================================================================
