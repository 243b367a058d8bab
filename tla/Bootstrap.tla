------------------------------ MODULE Bootstrap -----------------------------
(***************************************************************************)
(* bootstrapAppliance and its script (bootstrap.go): the admin password of *)
(* an appliance is chosen, set in Keystone, made persistent in Kolla's     *)
(* passwords.yml and in admin-openrc.sh, and returned to the installer.    *)
(*                                                                         *)
(* The script is a Run Command of the server agent, which runs commands    *)
(* one after the other; a command whose creation was not answered runs     *)
(* like any other.  The script may be cut off between any two steps.       *)
(***************************************************************************)
EXTENDS Naturals, Sequences

CONSTANTS
    Passwords,   \* passwords, those that openssl may draw included
    Vendor,      \* the password of the OVA
    Empty,       \* no password: an empty file, an empty setting
    Wishes,      \* bootstrap.admin_password of a run of the installer
    Fqdns,       \* host name of a run of the installer
    MaxRuns,     \* bound on runs of the installer
    MaxFaults    \* bound on faults and changes of the setting

ASSUME PasswordAssumption ==
    /\ Vendor \in Passwords /\ Empty \notin Passwords
    /\ Wishes \subseteq Passwords \cup {Empty}
ASSUME BoundAssumption == MaxRuns \in Nat /\ MaxFaults \in Nat

Attempts == 3

VARIABLES
    passwordFile,  \* /var/lib/coriolis-stackit/admin-password
    marker,        \* bootstrap-v4.sha256: the host name and password it hashes
    hostname, kolla, openrc, keystone,
    pc,            \* of the script that runs, "idle" when none does
    command,       \* its command: [id, wish, fqdn]
    password,      \* its $password
    queue,         \* commands that wait for the agent
    last,          \* the last finished command: [id, outcome, password]
    run,           \* the installer: "off", "create" or "wait"
    attempt, mine, \* its attempt, and the command it polls
    plan,          \* its setting: [wish, fqdn]
    reported,      \* the password that the last successful run returned
    drawn,         \* passwords drawn by openssl
    changed,       \* history: two runs had different settings
    lost,          \* history: a restart left password_file empty
    ids, runs, faults

appliance == <<passwordFile, marker, hostname, kolla, openrc, keystone>>
history   == <<drawn, lost>>
script    == <<pc, command, password, last, history>>
installer == <<run, attempt, mine, plan, reported, changed, runs>>
vars      == <<appliance, script, installer, queue, ids, faults>>

Plans == [wish : Wishes, fqdn : Fqdns]
NoCommand == [id |-> 0, wish |-> Empty, fqdn |-> Empty]

Init ==
    /\ passwordFile = Empty /\ marker = <<Empty, Empty>> /\ hostname = Empty
    /\ kolla = Vendor /\ openrc = Vendor /\ keystone = Vendor
    /\ pc = "idle" /\ command = NoCommand /\ password = Empty /\ drawn = {}
    /\ last = [id |-> 0, outcome |-> "failed", password |-> Empty]
    /\ run = "off" /\ attempt = 1 /\ mine = 0 /\ reported = Empty /\ runs = 0
    /\ changed = FALSE /\ lost = FALSE
    /\ plan \in Plans
    /\ queue = <<>> /\ ids = 0 /\ faults = 0

Fault == faults < MaxFaults /\ faults' = faults + 1

-----------------------------------------------------------------------------
(* The installer.                                                          *)

StartRun ==
    /\ run = "off" /\ runs < MaxRuns
    /\ run' = "create" /\ attempt' = 1 /\ runs' = runs + 1
    /\ \/ UNCHANGED <<plan, changed, faults>>
       \/ plan' \in Plans \ {plan} /\ changed' = TRUE /\ Fault
    /\ UNCHANGED <<appliance, script, mine, reported, queue, ids>>

Submit ==
    /\ ids' = ids + 1
    /\ queue' = Append(queue, [id |-> ids', wish |-> plan.wish, fqdn |-> plan.fqdn])

CreateCommand ==
    /\ run = "create" /\ run' = "wait"
    /\ Submit
    /\ mine' = ids'
    /\ UNCHANGED <<appliance, script, attempt, plan, reported, changed, runs, faults>>

\* Mutant: attempts are not limited.
RetriedAlways == run' = "create" /\ attempt' = attempt + 1

\* Another attempt after a transient failure, three in all.
Retried ==
    IF attempt < Attempts THEN run' = "create" /\ attempt' = attempt + 1
                          ELSE run' = "off" /\ UNCHANGED attempt

\* CreateCommand fails, maybe after the service took the command.
CreateFails ==
    /\ run = "create"
    /\ Fault
    /\ Retried
    /\ Submit \/ UNCHANGED <<queue, ids>>
    /\ UNCHANGED <<appliance, script, mine, plan, reported, changed, runs>>

\* waitRunCommand sees the end of its command.
Finishes(outcome) == run = "wait" /\ last.id = mine /\ last.outcome = outcome

Answered ==
    /\ Finishes("ok")
    /\ run' = "off" /\ reported' = last.password
    /\ UNCHANGED <<appliance, script, attempt, mine, plan, changed, runs, queue, ids, faults>>

CommandFailed ==
    /\ Finishes("failed")
    /\ run' = "off"
    /\ UNCHANGED <<appliance, script, attempt, mine, plan, reported, changed, runs, queue, ids, faults>>

\* Only a failure with an unsupported status is tried again.
CommandUnknown ==
    /\ Finishes("unsupported")
    /\ Retried
    /\ UNCHANGED <<appliance, script, mine, plan, reported, changed, runs, queue, ids, faults>>

\* The installer is interrupted, its phase is out of time, or an API call fails
\* for good.  Its commands run on.
Abort ==
    /\ run # "off" /\ run' = "off"
    /\ Fault
    /\ UNCHANGED <<appliance, script, attempt, mine, plan, reported, changed, runs, queue, ids>>

-----------------------------------------------------------------------------
(* The script.                                                             *)

Goto(a, b) == pc = a /\ pc' = b

End(outcome) ==
    /\ pc' = "idle"
    /\ last' = [id |-> command.id, outcome |-> outcome, password |-> password]

Begin ==
    /\ Goto("idle", "pick")
    /\ queue # <<>>
    /\ command' = Head(queue) /\ queue' = Tail(queue)
    /\ UNCHANGED <<appliance, password, last, history, installer, ids, faults>>

\* openssl draws one that nobody has had; which is all the same.
Fresh == Passwords \ (drawn \cup Wishes \cup {Vendor})
Drawn == CHOOSE p \in Fresh : TRUE

\* Mutant: the password of an earlier run is not looked at.
ChosenAnew(p) ==
    IF command.wish # Empty THEN p = command.wish /\ UNCHANGED drawn
    ELSE p = Drawn /\ drawn' = drawn \cup {p}

\* The configured password, the one of an earlier run, or a random one.
Chosen(p) ==
    IF command.wish # Empty THEN p = command.wish /\ UNCHANGED drawn
    ELSE IF passwordFile # Empty THEN p = passwordFile /\ UNCHANGED drawn
    ELSE p = Drawn /\ drawn' = drawn \cup {p}

\* It is written down before anything is changed.
Pick ==
    /\ Goto("pick", "check")
    /\ \E p \in Passwords : Chosen(p) /\ password' = p /\ passwordFile' = p
    /\ UNCHANGED <<marker, hostname, kolla, openrc, keystone, command, last, lost,
                   installer, queue, ids, faults>>

Desired == <<command.fqdn, password>>

\* Mutant: Keystone is not asked.
CurrentByMarker ==
    marker = Desired /\ hostname = command.fqdn /\ kolla = password /\ openrc = password

\* runtime_current
Current ==
    /\ marker = Desired /\ hostname = command.fqdn
    /\ kolla = password /\ openrc = password
    /\ keystone = password

Keep ==
    /\ pc = "check" /\ Current
    /\ End("ok")
    /\ UNCHANGED <<appliance, command, password, history, installer, queue, ids, faults>>

\* Anything differs, or Keystone is not up yet.
Reconfigure ==
    /\ Goto("check", "login")
    /\ hostname' = command.fqdn
    /\ UNCHANGED <<passwordFile, marker, kolla, openrc, keystone, command, password,
                   last, history, installer, queue, ids, faults>>

\* openstack token issue with the password of the openrc file or with $password,
\* in turns until Keystone is up.
LoginOld ==
    /\ Goto("login", "set") /\ keystone = openrc
    /\ UNCHANGED <<appliance, command, password, last, history, installer, queue, ids, faults>>

LoginNew ==
    /\ Goto("login", "persist") /\ keystone = password
    /\ UNCHANGED <<appliance, command, password, last, history, installer, queue, ids, faults>>

\* Neither is accepted in 120 attempts.
LoginRefused ==
    /\ pc = "login" /\ keystone \notin {openrc, password}
    /\ End("failed")
    /\ UNCHANGED <<appliance, command, password, history, installer, queue, ids, faults>>

SetKeystone ==
    /\ Goto("set", "persist")
    /\ keystone' = password
    /\ UNCHANGED <<passwordFile, marker, hostname, kolla, openrc, command, password,
                   last, history, installer, queue, ids, faults>>

\* Mutant: passwords.yml is left alone.
PersistKollaSkipped ==
    /\ Goto("persist", "openrc")
    /\ UNCHANGED <<appliance, command, password, last, history, installer, queue, ids, faults>>

\* Two files, each replaced as a whole.
PersistKolla ==
    /\ Goto("persist", "openrc")
    /\ kolla' = password
    /\ UNCHANGED <<passwordFile, marker, hostname, openrc, keystone, command, password,
                   last, history, installer, queue, ids, faults>>

PersistOpenrc ==
    /\ Goto("openrc", "expose")
    /\ openrc' = password
    /\ UNCHANGED <<passwordFile, marker, hostname, kolla, keystone, command, password,
                   last, history, installer, queue, ids, faults>>

\* expose_coriolis.py configures the services from passwords.yml.  It is not
\* known how far it comes when it fails.
Expose ==
    /\ Goto("expose", "verify")
    /\ keystone' = kolla /\ openrc' = kolla
    /\ UNCHANGED <<passwordFile, marker, hostname, kolla, command, password, last, history,
                   installer, queue, ids, faults>>

ExposeFails ==
    /\ Goto("expose", "verify")
    /\ Fault
    /\ keystone' \in {keystone, kolla} /\ openrc' \in {openrc, kolla}
    /\ UNCHANGED <<passwordFile, marker, hostname, kolla, command, password, last, history,
                   installer, queue, ids>>

\* The regenerated openrc file and a login decide, not the exit code.
Verify ==
    /\ pc = "verify"
    /\ IF openrc = password /\ keystone = password
       THEN End("ok") /\ marker' = Desired
       ELSE End("failed") /\ UNCHANGED marker
    /\ UNCHANGED <<passwordFile, hostname, kolla, openrc, keystone, command, password,
                   history, installer, queue, ids, faults>>

\* exit 31 or 32: the services are not ready in time; set -e: a command fails.
ScriptFails ==
    /\ pc # "idle"
    /\ Fault
    /\ End("failed")
    /\ UNCHANGED <<appliance, command, password, history, installer, queue, ids>>

\* The server restarts.  password_file is truncated and rewritten by every
\* script, without fsync.
Crash ==
    /\ pc # "idle"
    /\ Fault
    /\ \E outcome \in {"failed", "unsupported"} : End(outcome)
    /\ \/ UNCHANGED <<passwordFile, lost>>
       \/ pc # "pick" /\ passwordFile' = Empty /\ lost' = TRUE
    /\ UNCHANGED <<marker, hostname, kolla, openrc, keystone, command, password, drawn,
                   installer, queue, ids>>

-----------------------------------------------------------------------------

Installs == StartRun \/ CreateCommand \/ Answered \/ CommandFailed \/ CommandUnknown

Script ==
    \/ Begin \/ Pick \/ Keep \/ Reconfigure \/ LoginOld \/ LoginNew \/ LoginRefused
    \/ SetKeystone \/ PersistKolla \/ PersistOpenrc \/ Expose \/ Verify

Next == Installs \/ CreateFails \/ Abort \/ Script \/ ExposeFails \/ ScriptFails \/ Crash

Spec == Init /\ [][Next]_vars
LiveSpec == Spec /\ WF_vars(Installs) /\ WF_vars(Script)

-----------------------------------------------------------------------------
(* Properties.                                                             *)

MaybePasswords == Passwords \cup {Empty}

TypeOK ==
    /\ passwordFile \in MaybePasswords /\ marker \in (Fqdns \cup {Empty}) \X MaybePasswords
    /\ hostname \in Fqdns \cup {Empty}
    /\ kolla \in Passwords /\ openrc \in Passwords /\ keystone \in Passwords
    /\ pc \in {"idle", "pick", "check", "login", "set", "persist", "openrc", "expose", "verify"}
    /\ command \in [id : Nat, wish : Wishes \cup {Empty}, fqdn : Fqdns \cup {Empty}]
    /\ password \in MaybePasswords
    /\ queue \in Seq([id : Nat, wish : Wishes, fqdn : Fqdns])
    /\ last \in [id : Nat, outcome : {"ok", "failed", "unsupported"}, password : MaybePasswords]
    /\ run \in {"off", "create", "wait"} /\ attempt \in 1..Attempts /\ mine \in Nat
    /\ plan \in Plans /\ reported \in MaybePasswords
    /\ drawn \subseteq Passwords
    /\ changed \in BOOLEAN /\ lost \in BOOLEAN
    /\ ids \in Nat /\ runs \in 0..MaxRuns /\ faults \in 0..MaxFaults

\* A script that prints BOOTSTRAP_OK leaves Keystone, the persistent and the
\* local copies, the password file and the marker in agreement with what it
\* prints, whatever interrupted runs with other settings left behind.
CompletedWorks ==
    [][last' # last /\ last'.outcome = "ok" =>
          /\ {keystone', kolla', openrc', passwordFile'} = {last'.password}
          /\ marker' = <<command.fqdn, last'.password>> /\ hostname' = command.fqdn]_vars

\* A script can log in: "Accept either credential" (bootstrap.go:71-73).
LoginPossible == pc = "login" => keystone \in {openrc, password}

\* All runs have had the same setting, and no restart has lost the file.
Steady == ~changed /\ ~lost

\* So it can while the setting stays the same.
LoginSteady == Steady => LoginPossible

\* The password the user was given stays the one that Keystone accepts: "Reruns
\* return the same password." (docs/en/architecture.md:96-97).
ReportedWorks == Steady /\ reported # Empty => keystone = reported

\* After finitely many faults a run returns a password.
EventuallyReported == []Steady => <>(reported # Empty)
=============================================================================
