----------------------------- MODULE EdgeRelease ----------------------------
(***************************************************************************)
(* The edge agent's releases on its machine                                *)
(* (infra/jetson/veotrex-edge-ctl.sh, veotrex-edge.service).  The operator *)
(* builds releases while root installs the unit, activates a release or    *)
(* rolls back; any command may be killed between two of its steps, and the *)
(* machine may restart.  Accounts, directories and the text of the         *)
(* configuration are left out, and a unit is good or refused by systemd.   *)
(***************************************************************************)
EXTENDS Naturals

CONSTANTS
    Releases   \* the commits that are built, numbered from 1

ASSUME EdgeReleaseAssumption == Releases \subseteq Nat \ {0}

VARIABLES
    built,     \* releases/<sha>: "none", "partial", "named" once release.env is there, "whole"
    links,     \* the links current and previous; 0 is no link
    unit,      \* the unit file on disk, what systemd has loaded of it, and if boot starts it
    agent,     \* the release whose agent runs, 0 for none
    root,      \* the command root runs, its step, and the release current led to when it began
    building,  \* the release the operator is building, 0 for none
    past       \* history: releases that passed the strict verify, and if an activation was killed

releaseVars == <<built, links, unit, agent, root, building, past>>
Idle == [cmd |-> "none", step |-> "none", release |-> 0, restart |-> FALSE, was |-> 0]

ReleaseInit ==
    /\ built = [r \in Releases |-> "none"] /\ links = [current |-> 0, previous |-> 0]
    /\ unit = [disk |-> "none", loaded |-> "none", enabled |-> FALSE, configured |-> FALSE]
    /\ agent = 0 /\ root = Idle /\ building = 0 /\ past = [verified |-> {}, killed |-> FALSE]

Executable(r) == r # 0 /\ built[r] \in {"named", "whole"}
\* verify_unit: the unit on disk, and what it is to execute.
Accepted(r) == unit.disk = "good" /\ Executable(r)
To(step) == root' = [root EXCEPT !.step = step]
Finishes(cmd) == root' = Idle /\ root.cmd = cmd

-----------------------------------------------------------------------------
(* build: by the operator, whatever root does *)

StartBuild(r) ==
    /\ building = 0 /\ building' = r /\ unit.configured /\ built[r] \notin {"named", "whole"}
    /\ built' = [built EXCEPT ![r] = "partial"]
    /\ UNCHANGED <<links, unit, agent, root, past>>
\* Synchronised, checked and named; or a step fails and the directory goes.
NameBuild ==
    /\ building # 0 /\ built[building] = "partial"
    /\ \/ built' = [built EXCEPT ![building] = "named"] /\ building' = building
       \/ built' = [built EXCEPT ![building] = "none"] /\ building' = 0
    /\ UNCHANGED <<links, unit, agent, root, past>>
FinishBuild ==
    /\ building # 0 /\ built[building] = "named"
    /\ built' = [built EXCEPT ![building] = "whole"] /\ building' = 0
    /\ UNCHANGED <<links, unit, agent, root, past>>
KillBuild == building # 0 /\ building' = 0 /\ UNCHANGED <<built, links, unit, agent, root, past>>

-----------------------------------------------------------------------------
(* install *)

StartInstall ==
    /\ root = Idle /\ root' = [Idle EXCEPT !.cmd = "install", !.step = "copy"]
    /\ unit' = [unit EXCEPT !.configured = TRUE]
    /\ UNCHANGED <<built, links, agent, building, past>>
\* The unit of the checkout, which systemd may refuse, replaces the one on disk before it is verified.
CopyUnit ==
    /\ root.cmd = "install" /\ root.step = "copy" /\ To("verify")
    /\ \E text \in {"good", "bad"} : unit' = [unit EXCEPT !.disk = text]
    /\ UNCHANGED <<built, links, agent, building, past>>
\* Before a release is current, that there is nothing to execute is no finding.
VerifyInstall ==
    /\ root.cmd = "install" /\ root.step = "verify"
    /\ IF unit.disk = "good" THEN To("reload") ELSE Finishes("install")
    /\ UNCHANGED <<built, links, unit, agent, building, past>>
Reload(next) ==
    /\ \/ unit' = [unit EXCEPT !.loaded = unit.disk] /\ To(next)
       \/ root' = Idle /\ UNCHANGED unit   \* daemon-reload fails
    /\ UNCHANGED <<built, links, agent, building, past>>
ReloadInstall == root.cmd = "install" /\ root.step = "reload" /\ Reload("disable")
Disable ==
    /\ root.step = "disable" /\ Finishes("install")
    /\ unit' = [unit EXCEPT !.enabled = @ /\ links.current # 0]
    /\ UNCHANGED <<built, links, agent, building, past>>

-----------------------------------------------------------------------------
(* activate, and rollback as the activation of the previous release *)

\* The release is complete, and unit and configuration are there.
Activatable(r) == Executable(r) /\ unit.disk # "none" /\ unit.configured
StartActivate(r, restart) ==
    /\ root = Idle /\ Activatable(r)
    /\ root' = [cmd |-> "activate", step |-> "switch", restart |-> restart,
                release |-> r, was |-> links.current]
    /\ UNCHANGED <<built, links, unit, agent, building, past>>
Rollback == links.previous # 0 /\ StartActivate(links.previous, TRUE)
\* switch_current is one rename.
Current(release) == links' = [links EXCEPT !.current = release]
Switch ==
    /\ root.step = "switch" /\ To("verify") /\ Current(root.release)
    /\ UNCHANGED <<built, unit, agent, building, past>>
Verify ==
    /\ root.cmd = "activate" /\ root.step = "verify"
    /\ IF Accepted(root.release) THEN To("record") /\ past' = [past EXCEPT !.verified = @ \cup {root.release}]
       ELSE To("restore") /\ past' = past
    /\ UNCHANGED <<built, links, unit, agent, building>>
Restore ==
    /\ root.step = "restore" /\ Finishes("activate") /\ Current(root.was)
    /\ UNCHANGED <<built, unit, agent, building, past>>
Record ==
    /\ root.step = "record" /\ To("reload")
    /\ links' = [links EXCEPT !.previous = IF root.was \notin {0, root.release} THEN root.was ELSE @]
    /\ UNCHANGED <<built, unit, agent, building, past>>
ReloadActivate == root.cmd = "activate" /\ root.step = "reload" /\ Reload("enable")
Enable ==
    /\ root.step = "enable" /\ unit' = [unit EXCEPT !.enabled = TRUE]
    /\ IF root.restart THEN To("restart") ELSE Finishes("activate")
    /\ UNCHANGED <<built, links, agent, building, past>>
\* What systemd starts is the release current leads to, if it accepts the unit.
Started == IF unit'.loaded = "good" /\ Executable(links.current) THEN links.current ELSE 0
Restart ==
    /\ root.step = "restart" /\ To("health") /\ unit' = unit /\ agent' = Started
    /\ UNCHANGED <<built, links, building, past>>
\* verify_health waits and only reports.
Health == root.step = "health" /\ Finishes("activate") /\ UNCHANGED <<built, links, unit, agent, building, past>>

-----------------------------------------------------------------------------
(* Kills, restarts of the machine, and systemd *)

HalfWay == root.cmd = "activate" /\ root.step \in {"verify", "restore", "record"}
KillNoted == past' = [past EXCEPT !.killed = @ \/ HalfWay]
KillCommand == root # Idle /\ root' = Idle /\ KillNoted /\ UNCHANGED <<built, links, unit, agent, building>>
Reboot ==
    /\ root' = Idle /\ building' = 0 /\ KillNoted
    /\ unit' = [unit EXCEPT !.loaded = unit.disk]
    /\ agent' = IF unit.enabled THEN Started ELSE 0
    /\ UNCHANGED <<built, links>>
\* Restart=on-failure follows the link anew.
RestartOnFailure ==
    /\ agent # 0 /\ unit' = unit /\ agent' = Started
    /\ UNCHANGED <<built, links, root, building, past>>

EdgeReleaseNext ==
    \/ \E r \in Releases : StartBuild(r) \/ StartActivate(r, FALSE) \/ StartActivate(r, TRUE)
    \/ NameBuild \/ FinishBuild \/ KillBuild
    \/ StartInstall \/ CopyUnit \/ VerifyInstall \/ ReloadInstall \/ Disable
    \/ Rollback \/ Switch \/ Verify \/ Restore \/ Record \/ ReloadActivate \/ Enable \/ Restart \/ Health
    \/ KillCommand \/ Reboot \/ RestartOnFailure
EdgeReleaseSpec == ReleaseInit /\ [][EdgeReleaseNext]_releaseVars
-----------------------------------------------------------------------------
(* Properties *)

Texts == {"none", "good", "bad"}
RootSteps == {"none", "copy", "verify", "reload", "disable",
              "switch", "restore", "record", "enable", "restart", "health"}
UnitStates == [disk : Texts, loaded : Texts, enabled : BOOLEAN, configured : BOOLEAN]
RootStates == [cmd : {"none", "install", "activate"}, step : RootSteps, restart : BOOLEAN,
               release : Releases \cup {0}, was : Releases \cup {0}]
ReleaseTypeOK ==
    /\ built \in [Releases -> {"none", "partial", "named", "whole"}] /\ building \in Releases \cup {0}
    /\ links \in [current : Releases \cup {0}, previous : Releases \cup {0}] /\ agent \in Releases \cup {0}
    /\ unit \in UnitStates /\ root \in RootStates
    /\ past \in [verified : SUBSET Releases, killed : BOOLEAN]
\* veotrex-edge-ctl.sh:6-20: at every moment, killed commands, builds and reboots included, the links
\* and the running agent lead to complete releases, and boot has something to execute.
AlwaysBootable ==
    /\ \A r \in {links.current, links.previous, agent} \ {0} : Executable(r)
    /\ unit.enabled => Executable(links.current)
\* veotrex-edge-ctl.sh:15-18, 349-356: unless an activation was killed half way, what is current once no
\* activation runs, and what a rollback leads to, have passed the strict verify, and they differ.
VerifiedOrRestored ==
    ~past.killed =>
        /\ root.cmd # "activate" => {links.current, links.previous} \subseteq past.verified \cup {0}
        /\ root.cmd # "activate" /\ links.previous # 0 => links.previous # links.current
EdgeReleaseInv == ReleaseTypeOK /\ AlwaysBootable /\ VerifiedOrRestored
=============================================================================
