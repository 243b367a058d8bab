-------------------------- MODULE BootstrapProofs --------------------------
(***************************************************************************)
(* Proofs about Bootstrap, for any number of runs, commands and faults:    *)
(* what the copies of the password have in common at each point of the     *)
(* script, and that therefore the next script can log in.                  *)
(***************************************************************************)
EXTENDS Bootstrap, TLAPS

\* What a script has done when it has come to a point, whatever scripts before
\* it have left behind.
Progressing ==
    /\ pc \notin {"idle", "pick"} => password \in Passwords /\ passwordFile = password
    /\ pc \notin {"idle", "pick", "check"} => hostname = command.fqdn
    /\ pc \in {"openrc", "expose", "verify"} => kolla = password

\* While the setting stays the same every command has it ...
SameWish ==
    /\ \A n \in 1..Len(queue) : queue[n].wish = plan.wish
    /\ pc # "idle" => command.wish = plan.wish
    /\ plan.wish # Empty => passwordFile \in {Empty, plan.wish}

\* ... and there is one new password, the one in the file: each copy is it or
\* the vendor's, Keystone gets it before the openrc file does.
OnePassword ==
    /\ kolla \in {Vendor, passwordFile}
    /\ keystone \in {Vendor, passwordFile}
    /\ openrc \in {Vendor, keystone}
    /\ pc \in {"persist", "openrc", "expose", "verify"} => keystone = password

\* It is the one that a script has printed and that a run has returned.
OneAnswer ==
    /\ last.outcome = "ok" => last.password = keystone /\ keystone = passwordFile
    /\ reported # Empty => reported = keystone /\ keystone = passwordFile

Inv ==
    /\ TypeOK
    /\ Progressing
    /\ Steady => SameWish /\ OnePassword /\ OneAnswer

-----------------------------------------------------------------------------
(* Types.                                                                  *)

Commands == [id : Nat, wish : Wishes, fqdn : Fqdns]

LEMMA SubmitType ==
    ASSUME TypeOK, Submit
    PROVE  ids' \in Nat /\ queue' \in Seq(Commands)
  BY DEF TypeOK, Submit, Plans, Commands

LEMMA FaultType ==
    ASSUME TypeOK, Fault PROVE faults' \in 0..MaxFaults
  BY BoundAssumption DEF TypeOK, Fault

LEMMA RetriedType ==
    ASSUME TypeOK, Retried PROVE run' \in {"off", "create", "wait"} /\ attempt' \in 1..Attempts
  BY DEF TypeOK, Retried, Attempts

LEMMA EndType ==
    ASSUME TypeOK, NEW o \in {"ok", "failed", "unsupported"}, End(o)
    PROVE  last' \in [id : Nat, outcome : {"ok", "failed", "unsupported"},
                      password : MaybePasswords]
  BY DEF TypeOK, End

LEMMA InstallerType ==
    ASSUME TypeOK, Installs \/ CreateFails \/ Abort PROVE TypeOK'
<1> USE DEF appliance, history, script, installer
<1>1. CASE StartRun
  <2>1. runs' \in 0..MaxRuns /\ faults' \in 0..MaxFaults
    BY <1>1, FaultType, BoundAssumption DEF TypeOK, StartRun
  <2>2. plan' \in Plans /\ changed' \in BOOLEAN
    BY <1>1 DEF TypeOK, StartRun
  <2> QED BY <1>1, <2>1, <2>2 DEF TypeOK, StartRun, Attempts
<1>2. CASE CreateCommand
  BY <1>2, SubmitType DEF TypeOK, CreateCommand, Commands
<1>3. CASE Answered
  BY <1>3 DEF TypeOK, Answered
<1>4. CASE CommandFailed
  BY <1>4 DEF TypeOK, CommandFailed
<1>5. CASE CommandUnknown
  BY <1>5, RetriedType DEF TypeOK, CommandUnknown
<1>6. CASE CreateFails
  <2>1. ids' \in Nat /\ queue' \in Seq(Commands)
    BY <1>6, SubmitType DEF TypeOK, CreateFails, Commands
  <2> QED BY <1>6, <2>1, RetriedType, FaultType DEF TypeOK, CreateFails, Commands
<1>7. CASE Abort
  BY <1>7, FaultType DEF TypeOK, Abort
<1> QED BY <1>1, <1>2, <1>3, <1>4, <1>5, <1>6, <1>7 DEF Installs

LEMMA ScriptType ==
    ASSUME TypeOK, Progressing, Script \/ ExposeFails \/ ScriptFails \/ Crash
    PROVE  TypeOK'
<1> USE DEF appliance, history, script, installer, Goto
<1>1. CASE Begin
  <2>1. command' \in Commands /\ queue' \in Seq(Commands)
    <3>1. queue \in Seq(Commands) /\ queue # <<>>
      BY <1>1 DEF TypeOK, Begin, Commands
    <3>2. Head(queue) \in Commands /\ Tail(queue) \in Seq(Commands)
      BY <3>1
    <3> QED BY <1>1, <3>2 DEF Begin
  <2> QED BY <1>1, <2>1 DEF TypeOK, Begin, Commands
<1>2. CASE Pick
  <2>1. PICK p \in Passwords : Chosen(p) /\ password' = p /\ passwordFile' = p
    BY <1>2 DEF Pick
  <2>2. drawn' \subseteq Passwords
    BY <2>1 DEF Chosen, TypeOK
  <2> QED BY <1>2, <2>1, <2>2 DEF TypeOK, Pick, MaybePasswords
<1>3. CASE Keep
  BY <1>3, EndType DEF TypeOK, Keep, End
<1>4. CASE Reconfigure
  BY <1>4 DEF TypeOK, Reconfigure
<1>5. CASE LoginOld \/ LoginNew
  BY <1>5 DEF TypeOK, LoginOld, LoginNew
<1>6. CASE LoginRefused
  BY <1>6, EndType DEF TypeOK, LoginRefused, End
<1>7. CASE SetKeystone \/ PersistKolla \/ PersistOpenrc
  BY <1>7 DEF TypeOK, Progressing, SetKeystone, PersistKolla, PersistOpenrc
<1>8. CASE Expose
  BY <1>8 DEF TypeOK, Expose
<1>9. CASE Verify
  <2>1. marker' \in (Fqdns \cup {Empty}) \X MaybePasswords
    BY <1>9 DEF TypeOK, Verify, Desired, MaybePasswords
  <2> QED BY <1>9, <2>1, EndType DEF TypeOK, Verify, End
<1>10. CASE ExposeFails
  BY <1>10, FaultType DEF TypeOK, ExposeFails
<1>11. CASE ScriptFails
  BY <1>11, FaultType, EndType DEF TypeOK, ScriptFails, End
<1>12. CASE Crash
  <2>1. PICK o \in {"failed", "unsupported"} : End(o)
    BY <1>12 DEF Crash
  <2>2. passwordFile' \in MaybePasswords /\ lost' \in BOOLEAN
    BY <1>12 DEF Crash, TypeOK, MaybePasswords
  <2> QED BY <1>12, <2>1, <2>2, FaultType, EndType DEF TypeOK, Crash, End
<1> QED BY <1>1, <1>2, <1>3, <1>4, <1>5, <1>6, <1>7, <1>8, <1>9, <1>10, <1>11, <1>12 DEF Script

-----------------------------------------------------------------------------
(* What the script has done.                                               *)

LEMMA ProgressingStep ==
    ASSUME Inv, Next PROVE Progressing'
<1> USE DEF Inv, TypeOK, Progressing, appliance, history, script, installer, Goto
<1>1. CASE Installs \/ CreateFails \/ Abort
  BY <1>1 DEF Installs, StartRun, CreateCommand, Answered, CommandFailed, CommandUnknown,
              CreateFails, Abort
<1>2. CASE Begin \/ Pick \/ Reconfigure \/ LoginOld \/ LoginNew
  BY <1>2 DEF Begin, Pick, Reconfigure, LoginOld, LoginNew
<1>3. CASE SetKeystone \/ PersistKolla \/ PersistOpenrc \/ Expose \/ ExposeFails
  BY <1>3 DEF SetKeystone, PersistKolla, PersistOpenrc, Expose, ExposeFails
<1>4. CASE Keep \/ LoginRefused \/ Verify \/ ScriptFails \/ Crash
  BY <1>4 DEF Keep, LoginRefused, Verify, ScriptFails, Crash, End
<1> QED BY <1>1, <1>2, <1>3, <1>4 DEF Next, Script

-----------------------------------------------------------------------------
(* The setting stays the same.                                             *)

LEMMA WasSteady ==
    ASSUME Inv, Next, Steady' PROVE Steady
<1> USE DEF Steady, appliance, history, script, installer
<1>1. CASE Installs \/ CreateFails \/ Abort
  BY <1>1 DEF Installs, StartRun, CreateCommand, Answered, CommandFailed, CommandUnknown,
              CreateFails, Abort
<1>2. CASE Script \/ ExposeFails \/ ScriptFails
  BY <1>2 DEF Script, Begin, Pick, Keep, Reconfigure, LoginOld, LoginNew, LoginRefused,
              SetKeystone, PersistKolla, PersistOpenrc, Expose, Verify, ExposeFails, ScriptFails
<1>3. CASE Crash
  BY <1>3 DEF Crash
<1> QED BY <1>1, <1>2, <1>3 DEF Next

LEMMA SubmitSame ==
    ASSUME Inv, SameWish, Submit, plan' = plan
    PROVE  \A n \in 1..Len(queue') : queue'[n].wish = plan'.wish
<1>1. queue \in Seq(Commands) /\ ids' \in Nat
  BY SubmitType DEF Inv, TypeOK, Commands
<1>2. queue' = Append(queue, [id |-> ids', wish |-> plan.wish, fqdn |-> plan.fqdn])
  BY DEF Submit
<1>3. Len(queue') = Len(queue) + 1
  BY <1>1, <1>2
<1>4. TAKE n \in 1..Len(queue')
<1>5. CASE n = Len(queue')
  BY <1>1, <1>2, <1>3, <1>5
<1>6. CASE n # Len(queue')
  <2>1. n \in 1..Len(queue) /\ queue'[n] = queue[n]
    BY <1>1, <1>2, <1>3, <1>6
  <2> QED BY <2>1 DEF SameWish
<1> QED BY <1>5, <1>6

LEMMA SteadyInstaller ==
    ASSUME Inv, Steady, Steady', Installs \/ CreateFails \/ Abort
    PROVE  SameWish' /\ OnePassword' /\ OneAnswer'
<1> USE DEF appliance, history, script, installer
<1>1. SameWish /\ OnePassword /\ OneAnswer
  BY DEF Inv
<1>2. plan' = plan /\ UNCHANGED <<appliance, script>>
  BY DEF Steady, Installs, StartRun, CreateCommand, Answered, CommandFailed, CommandUnknown,
         CreateFails, Abort
<1>3. \A n \in 1..Len(queue') : queue'[n].wish = plan'.wish
  <2>1. CASE Submit
    BY <2>1, <1>1, <1>2, SubmitSame
  <2>2. CASE queue' = queue
    BY <2>2, <1>1, <1>2 DEF SameWish
  <2> QED BY <2>1, <2>2 DEF Installs, StartRun, CreateCommand, Answered, CommandFailed,
                            CommandUnknown, CreateFails, Abort
<1>4. reported' = reported \/ (last.outcome = "ok" /\ reported' = last.password)
  BY DEF Installs, StartRun, CreateCommand, Answered, CommandFailed, CommandUnknown,
         CreateFails, Abort, Finishes
<1> QED BY <1>1, <1>2, <1>3, <1>4 DEF SameWish, OnePassword, OneAnswer

LEMMA SteadyPick ==
    ASSUME Inv, Steady, Pick
    PROVE  SameWish' /\ OnePassword' /\ OneAnswer'
<1> USE DEF appliance, history, script, installer, Goto
<1>1. SameWish /\ OnePassword /\ OneAnswer /\ TypeOK
  BY DEF Inv
<1>2. PICK p \in Passwords : Chosen(p) /\ password' = p /\ passwordFile' = p
  BY DEF Pick
<1>3. p # Empty
  BY PasswordAssumption
<1>4. command.wish = plan.wish
  BY <1>1 DEF SameWish, Pick
<1>5. passwordFile \in {Empty, p} /\ (plan.wish # Empty => p = plan.wish)
  BY <1>1, <1>2, <1>4 DEF Chosen, SameWish
<1>6. SameWish'
  BY <1>1, <1>2, <1>4, <1>5 DEF SameWish, Pick
<1>7. passwordFile = Empty => keystone = Vendor /\ kolla = Vendor /\ openrc = Vendor
                                /\ last.outcome # "ok" /\ reported = Empty
  BY <1>1, PasswordAssumption DEF OnePassword, OneAnswer, TypeOK
<1> QED BY <1>1, <1>2, <1>5, <1>6, <1>7 DEF OnePassword, OneAnswer, Pick

LEMMA SteadyScript ==
    ASSUME Inv, Steady, Steady', Script \/ ExposeFails \/ ScriptFails \/ Crash
    PROVE  SameWish' /\ OnePassword' /\ OneAnswer'
<1> USE DEF appliance, history, script, installer, Goto
<1>1. SameWish /\ OnePassword /\ OneAnswer /\ TypeOK /\ Progressing
  BY DEF Inv
<1>2. CASE Begin
  <2>1. queue \in Seq(Commands) /\ queue # <<>>
    BY <1>1, <1>2 DEF TypeOK, Begin, Commands
  <2>2. Head(queue) = queue[1] /\ 1 \in 1..Len(queue)
    BY <2>1
  <2>3. \A n \in 1..Len(Tail(queue)) : n + 1 \in 1..Len(queue) /\ Tail(queue)[n] = queue[n + 1]
    BY <2>1
  <2>4. SameWish'
    BY <1>1, <1>2, <2>2, <2>3 DEF SameWish, Begin
  <2> QED BY <1>1, <1>2, <2>4 DEF Begin, OnePassword, OneAnswer
<1>3. CASE Pick
  BY <1>3, SteadyPick
<1>4. CASE Reconfigure \/ LoginOld \/ LoginNew
  BY <1>1, <1>4 DEF Reconfigure, LoginOld, LoginNew, SameWish, OnePassword, OneAnswer
<1>5. CASE SetKeystone
  BY <1>1, <1>5 DEF SetKeystone, SameWish, OnePassword, OneAnswer, Progressing
<1>6. CASE PersistKolla \/ PersistOpenrc
  BY <1>1, <1>6 DEF PersistKolla, PersistOpenrc, SameWish, OnePassword, OneAnswer, Progressing
<1>7. CASE Expose \/ ExposeFails
  BY <1>1, <1>7 DEF Expose, ExposeFails, SameWish, OnePassword, OneAnswer, Progressing
<1>8. CASE Keep \/ Verify
  BY <1>1, <1>8 DEF Keep, Current, Verify, End, SameWish, OnePassword, OneAnswer, Progressing
<1>9. CASE LoginRefused \/ ScriptFails
  BY <1>1, <1>9 DEF LoginRefused, ScriptFails, End, SameWish, OnePassword, OneAnswer
<1>10. CASE Crash
  <2>1. passwordFile' = passwordFile
    BY <1>10 DEF Crash, Steady
  <2> QED BY <1>1, <1>10, <2>1 DEF Crash, End, SameWish, OnePassword, OneAnswer
<1> QED BY <1>2, <1>3, <1>4, <1>5, <1>6, <1>7, <1>8, <1>9, <1>10 DEF Script

-----------------------------------------------------------------------------
(* Together.                                                               *)

LEMMA InitInv == Init => Inv
<1> SUFFICES ASSUME Init PROVE Inv
  OBVIOUS
<1>1. TypeOK
  <2>1. queue \in Seq(Commands)
    BY DEF Init
  <2>2. command \in [id : Nat, wish : Wishes \cup {Empty}, fqdn : Fqdns \cup {Empty}]
    BY DEF Init, NoCommand
  <2>3. runs \in 0..MaxRuns /\ faults \in 0..MaxFaults /\ attempt \in 1..Attempts
    BY BoundAssumption DEF Init, Attempts
  <2>4. marker \in (Fqdns \cup {Empty}) \X MaybePasswords
    BY DEF Init, MaybePasswords
  <2> QED BY <2>1, <2>2, <2>3, <2>4, PasswordAssumption
          DEF Init, TypeOK, MaybePasswords, Commands
<1>2. Progressing
  BY DEF Init, Progressing
<1>3. SameWish /\ OnePassword /\ OneAnswer
  BY DEF Init, SameWish, OnePassword, OneAnswer
<1> QED BY <1>1, <1>2, <1>3 DEF Inv

LEMMA NextInv == Inv /\ [Next]_vars => Inv'
<1> SUFFICES ASSUME Inv, [Next]_vars PROVE Inv'
  OBVIOUS
<1>1. CASE UNCHANGED vars
  BY <1>1 DEF Inv, TypeOK, Progressing, Steady, SameWish, OnePassword, OneAnswer,
              vars, appliance, history, script, installer
<1>2. CASE Next
  <2>1. TypeOK'
    BY <1>2, InstallerType, ScriptType DEF Inv, Next
  <2>2. Progressing'
    BY <1>2, ProgressingStep
  <2>3. ASSUME Steady' PROVE SameWish' /\ OnePassword' /\ OneAnswer'
    <3>1. Steady
      BY <1>2, <2>3, WasSteady
    <3> QED BY <1>2, <2>3, <3>1, SteadyInstaller, SteadyScript DEF Next
  <2> QED BY <2>1, <2>2, <2>3 DEF Inv
<1> QED BY <1>1, <1>2

(***************************************************************************)
(* Types, and what the copies of the password have in common, for every    *)
(* set of settings and names and every number of runs and faults.          *)
(***************************************************************************)
THEOREM BootstrapInvariant == Spec => []Inv
  BY InitInv, NextInv, PTL DEF Spec

(***************************************************************************)
(* The installer and the appliance keep their types: a queued command, a   *)
(* running script and a reported password are ones that a setting gives.   *)
(***************************************************************************)
THEOREM TypeCorrect == Spec => []TypeOK
<1>1. Inv => TypeOK
  BY DEF Inv
<1> QED BY <1>1, BootstrapInvariant, PTL

(***************************************************************************)
(* bootstrap.go:71-73: while the setting stays the same and the password   *)
(* file is not lost, one of the two credentials of a script is accepted,   *)
(* wherever the scripts before it were cut off.                            *)
(***************************************************************************)
THEOREM ScriptsLogIn == Spec => []LoginSteady
<1>1. Inv => LoginSteady
  BY DEF Inv, LoginSteady, LoginPossible, Steady, OnePassword, Progressing
<1> QED BY <1>1, BootstrapInvariant, PTL

(***************************************************************************)
(* Under the same condition the password that a run has returned stays the *)
(* one that Keystone accepts (docs/en/architecture.md:96-97).              *)
(***************************************************************************)
THEOREM ReportsStayTrue == Spec => []ReportedWorks
<1>1. Inv => ReportedWorks
  BY DEF Inv, ReportedWorks, OneAnswer
<1> QED BY <1>1, BootstrapInvariant, PTL

(***************************************************************************)
(* A script that succeeds leaves all copies of the password in agreement,  *)
(* also after runs with other settings and after a lost password file.     *)
(***************************************************************************)
THEOREM SuccessAgreesEverywhere == Spec => CompletedWorks
<1> DEFINE Agreed ==
      /\ {keystone', kolla', openrc', passwordFile'} = {last'.password}
      /\ marker' = <<command.fqdn, last'.password>> /\ hostname' = command.fqdn
<1>1. ASSUME Inv, Next, last' # last, last'.outcome = "ok" PROVE Agreed
  <2> USE DEF appliance, history, script, installer
  <2>1. CASE Keep
    BY <1>1, <2>1 DEF Keep, Current, Desired, End, Inv, Progressing
  <2>2. CASE Verify
    BY <1>1, <2>2 DEF Verify, Desired, End, Inv, Progressing
  <2>3. CASE LoginRefused \/ ScriptFails \/ Crash
    BY <1>1, <2>3 DEF LoginRefused, ScriptFails, Crash, End
  <2>4. CASE Installs \/ CreateFails \/ Abort
    BY <1>1, <2>4 DEF Installs, StartRun, CreateCommand, Answered, CommandFailed,
                      CommandUnknown, CreateFails, Abort
  <2>5. CASE Begin \/ Pick \/ Reconfigure \/ LoginOld \/ LoginNew \/ SetKeystone
               \/ PersistKolla \/ PersistOpenrc \/ Expose \/ ExposeFails
    BY <1>1, <2>5 DEF Begin, Pick, Reconfigure, LoginOld, LoginNew, SetKeystone,
                      PersistKolla, PersistOpenrc, Expose, ExposeFails
  <2> QED BY <1>1, <2>1, <2>2, <2>3, <2>4, <2>5 DEF Next, Script
<1>2. Inv /\ [Next]_vars =>
        [last' # last /\ last'.outcome = "ok" => Agreed]_vars
  BY <1>1
<1> QED BY <1>2, BootstrapInvariant, PTL DEF Spec, CompletedWorks
=============================================================================
