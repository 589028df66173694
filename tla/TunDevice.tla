------------------------------ MODULE TunDevice ------------------------------
(***************************************************************************)
(* The native TUN interface as native_tun.rs drives it: an MTU, one        *)
(* optional IPv6 address, and apply_path_mtu, which moves both to what a    *)
(* path supports.  apply_path_mtu makes up to two system calls; each is a   *)
(* step of its own, because the host routes packets between them and any   *)
(* of them may fail.                                                        *)
(***************************************************************************)
EXTENDS Naturals

CONSTANTS
    Mtus,           \* MTU values the configuration and path discovery produce
    Ipv6MinMtu,     \* IPV6_MIN_MTU, RFC 8200's minimum link MTU
    TunnelIpv6,     \* whether the device was created with an IPv6 address
    ManageIpv6      \* configure_addresses: FALSE under --no-iproute2

ASSUME DeviceConfig ==
    /\ Mtus \subseteq Nat
    /\ Ipv6MinMtu \in Nat
    /\ TunnelIpv6 \in BOOLEAN
    /\ ManageIpv6 \in BOOLEAN

VARIABLES
    tunMtu,         \* the interface MTU, cached in TunRsDevice.mtu
    ipv6,           \* whether the IPv6 address is on the interface
    job             \* the apply_path_mtu call in progress and its outcome

deviceVars == <<tunMtu, ipv6, job>>

JobStep == {"idle", "disable", "setmtu", "enable", "ok", "failed"}

Job == [mtu : Mtus, enable : BOOLEAN, step : JobStep]

DeviceTypeOK ==
    /\ tunMtu \in Mtus
    /\ ipv6 \in BOOLEAN
    /\ job \in Job

ipv6_path_supported(mtu) == mtu >= Ipv6MinMtu

(* Mutant of PathMtuJob: allow_ipv6 is believed without the MTU check.      *)
PathMtuJobUnchecked(mtu, allow) ==
    [mtu |-> mtu, enable |-> allow, step |-> IF allow THEN "setmtu" ELSE "disable"]

(* The call apply_path_mtu(mtu, allow_ipv6): it withdraws IPv6 first unless  *)
(* the path supports it.                                                    *)
PathMtuJob(mtu, allow) ==
    LET enable == allow /\ ipv6_path_supported(mtu) IN
    [mtu |-> mtu, enable |-> enable, step |-> IF enable THEN "setmtu" ELSE "disable"]

ApplyPathMtu(mtu, allow) == job' = PathMtuJob(mtu, allow)

Goto(step) == job' = [job EXCEPT !.step = step]

(* set_ipv6_enabled returns Ok without a system call when there is no       *)
(* address, when addresses are not managed, or when nothing would change.   *)
NeedsSwitch(enabled) == TunnelIpv6 /\ ManageIpv6 /\ ipv6 # enabled

SetIpv6Enabled(enabled, next) ==
    /\ ipv6' = IF NeedsSwitch(enabled) THEN enabled ELSE ipv6
    /\ Goto(next)
    /\ UNCHANGED tunMtu

DisableIpv6 == job.step = "disable" /\ SetIpv6Enabled(FALSE, "setmtu")

EnableIpv6 == job.step = "enable" /\ SetIpv6Enabled(TRUE, "ok")

SetMtu ==
    /\ job.step = "setmtu"
    /\ tunMtu' = job.mtu
    /\ Goto(IF job.enable THEN "enable" ELSE "ok")
    /\ UNCHANGED ipv6

DeviceCall == DisableIpv6 \/ SetMtu \/ EnableIpv6

(* A system call that returns an error leaves the interface as it was and   *)
(* ends apply_path_mtu through its `?`.                                     *)
DeviceCallFails ==
    /\ \/ job.step = "disable" /\ NeedsSwitch(FALSE)
       \/ job.step = "setmtu" /\ tunMtu # job.mtu
       \/ job.step = "enable" /\ NeedsSwitch(TRUE)
    /\ Goto("failed")
    /\ UNCHANGED <<tunMtu, ipv6>>

(* The caller looks at the result. *)
Returned(outcome) == job.step = outcome

=============================================================================
