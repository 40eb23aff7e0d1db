------------------------------ MODULE TierSetup ------------------------------
(***************************************************************************)
(* The Tier 2 setup wizard (tier2_routes.py and the setup steps of         *)
(* wsl_orchestrator.py): which WSL distribution is installed, prepared and *)
(* remembered, and which iPhones usbipd passes into it.                    *)
(***************************************************************************)
EXTENDS FiniteSets

CONSTANTS
  Distros,  \* names of WSL distributions, "ubuntu" among them
  Setups,   \* requests of the wizard that run at once
  Phones    \* Apple devices on the USB

ASSUME DistrosAssumption == "ubuntu" \in Distros /\ "none" \notin Distros

VARIABLES
  registered,   \* distributions that wsl --list shows
  savedDistro,  \* wsl_distro.txt, or NoDistro
  foundDistro,  \* _cached_distro_name, kept for 30 seconds
  toolsIn,      \* distributions that have the packages and the bridge script
  spoilt,       \* history: distributions removed, or left without the script
  setup,        \* how far every request is, and with which distribution
  usb,          \* what usbipd list says of every phone
  recovery      \* phones the running auto_recover_apple_device will attach

setupVars == <<registered, savedDistro, foundDistro, toolsIn, spoilt, setup, usb, recovery>>
distroVars == <<registered, savedDistro, foundDistro, toolsIn, spoilt, setup>>

NoDistro == "none"
NoSetup  == [at |-> "idle", with |-> NoDistro]

-----------------------------------------------------------------------------
(* A bug the code could have; it stands in for the definition below.       *)

\* get_transfera_wsl_distro before anything is saved.
RemembersDefault(d) ==
  IF "ubuntu" \in registered THEN "ubuntu"
  ELSE IF registered # {} THEN CHOOSE e \in registered : TRUE ELSE NoDistro

-----------------------------------------------------------------------------

SetupInit ==
  /\ registered \in SUBSET Distros /\ savedDistro = NoDistro /\ foundDistro = NoDistro
  /\ toolsIn = {} /\ spoilt = {} /\ setup = [r \in Setups |-> NoSetup]
  /\ usb = [p \in Phones |-> "absent"] /\ recovery = {}

\* get_transfera_wsl_distro: the saved name is used unseen, then Ubuntu, then
\* the first in the list.
ResolveDistro(R, name) ==
  IF name # NoDistro THEN name
  ELSE IF "ubuntu" \in R THEN "ubuntu" ELSE IF R # {} THEN CHOOSE d \in R : TRUE ELSE NoDistro

\* The file may be unreadable, which is passed over, and the list may fail.
WslDistros ==
  {ResolveDistro(R, name) : R \in {registered, {}}, name \in {savedDistro, NoDistro}} \ {NoDistro}

\* install_wsl, install_distro: a list that is not empty is ready, whatever
\* distribution the resolver names.
InstallDistro ==
  /\ registered = {} /\ registered' = {"ubuntu"}
  /\ UNCHANGED <<savedDistro, foundDistro, toolsIn, spoilt, setup, usb, recovery>>

\* provision_linux refuses when nothing resolves; else it takes _find_distro, at
\* most 30 seconds old.
ProvisionBegins(r) ==
  /\ setup[r] = NoSetup /\ WslDistros # {}
  /\ foundDistro' \in (WslDistros \cup {foundDistro}) \ {NoDistro}
  /\ setup' = [setup EXCEPT ![r] = [at |-> "preparing", with |-> foundDistro']]
  /\ UNCHANGED <<registered, savedDistro, toolsIn, spoilt, usb, recovery>>

\* A step before the script failed, or the distribution is gone.
ProvisionFails(r) ==
  /\ setup[r].at = "preparing" /\ setup' = [setup EXCEPT ![r] = NoSetup]
  /\ UNCHANGED <<registered, savedDistro, foundDistro, toolsIn, spoilt, usb, recovery>>

\* A script that could not be copied is only logged: the step goes on.
ProvisionDeploys(r, deployed) ==
  LET d == setup[r].with IN
  /\ setup[r].at = "preparing" /\ (deployed => d \in registered)
  /\ toolsIn' = IF deployed THEN toolsIn \cup {d} ELSE toolsIn
  /\ spoilt'  = IF deployed THEN spoilt \ {d} ELSE spoilt \cup ({d} \ toolsIn)
  /\ setup' = [setup EXCEPT ![r].at = "deployed"]
  /\ UNCHANGED <<registered, savedDistro, foundDistro, usb, recovery>>

\* save_transfera_wsl_distro: the name of the distribution that was prepared.
NameToSave(d) == d

ProvisionSaves(r) ==
  /\ setup[r].at = "deployed" /\ setup' = [setup EXCEPT ![r] = NoSetup]
  /\ savedDistro' = NameToSave(setup[r].with)
  /\ UNCHANGED <<registered, foundDistro, toolsIn, spoilt, usb, recovery>>

\* The file is written in place: a write that fails, or that the end of the
\* engine interrupts, may leave it empty.
ProvisionCannotSave(r) ==
  /\ setup[r].at = "deployed" /\ setup' = [setup EXCEPT ![r] = NoSetup]
  /\ savedDistro' \in {savedDistro, NoDistro}
  /\ UNCHANGED <<registered, foundDistro, toolsIn, spoilt, usb, recovery>>

SetupRestarts ==
  /\ setup' = [r \in Setups |-> NoSetup] /\ foundDistro' = NoDistro /\ recovery' = {}
  /\ savedDistro' \in IF \E r \in Setups : setup[r].at = "deployed"
                      THEN {savedDistro, NoDistro} ELSE {savedDistro}
  /\ UNCHANGED <<registered, toolsIn, spoilt, usb>>

UserInstalls(d) ==
  /\ d \notin registered /\ registered' = registered \cup {d}
  /\ UNCHANGED <<savedDistro, foundDistro, toolsIn, spoilt, setup, usb, recovery>>

UserUnregisters(d) ==
  /\ d \in registered /\ registered' = registered \ {d}
  /\ toolsIn' = toolsIn \ {d} /\ spoilt' = spoilt \cup {d}
  /\ UNCHANGED <<savedDistro, foundDistro, setup, usb, recovery>>

-----------------------------------------------------------------------------
(* USB passthrough                                                         *)

Plugged(p, was, is) ==
  /\ usb[p] = was /\ usb' = [usb EXCEPT ![p] = is] /\ UNCHANGED <<recovery, distroVars>>

\* auto_recover_apple_device attaches what a listing showed as shared.  An
\* attached phone is not "Shared": it is reported as in need of a bind.
RecoveryBegins ==
  /\ recovery = {} /\ recovery' = {p \in Phones : usb[p] = "shared"} /\ recovery' # {}
  /\ UNCHANGED <<usb, distroVars>>

RecoveryAttaches(p, ok) ==
  /\ p \in recovery /\ recovery' = recovery \ {p}
  /\ usb' = IF ok /\ usb[p] = "shared" /\ WslDistros # {}
            THEN [usb EXCEPT ![p] = "attached"] ELSE usb
  /\ UNCHANGED distroVars

\* POST bind-execute for one phone; the bind itself runs elevated, outside.
HandleAppleDevice(p) ==
  usb[p] = "shared" /\ WslDistros # {} /\ Plugged(p, "shared", "attached")

SetupNext ==
  \/ InstallDistro \/ RecoveryBegins \/ SetupRestarts
  \/ \E r \in Setups :
       \/ ProvisionBegins(r) \/ ProvisionFails(r) \/ ProvisionSaves(r) \/ ProvisionCannotSave(r)
       \/ \E ok \in BOOLEAN : ProvisionDeploys(r, ok)
  \/ \E d \in Distros : UserInstalls(d) \/ UserUnregisters(d)
  \/ \E p \in Phones :
       \/ Plugged(p, "absent", "not shared") \/ Plugged(p, "not shared", "shared")
       \/ Plugged(p, "shared", "absent") \/ Plugged(p, "attached", "absent")
       \/ HandleAppleDevice(p) \/ \E ok \in BOOLEAN : RecoveryAttaches(p, ok)

SetupSpec == SetupInit /\ [][SetupNext]_setupVars

-----------------------------------------------------------------------------
(* Properties.                                                             *)

\* The bridge is started where the wizard put it: a name is remembered only of a
\* distribution that was prepared before, however requests overlap and the engine
\* stops between the two, and it is chosen over whatever is installed later,
\* unless the user removed it or its script could not be copied.  (A file that
\* cannot be read, or was left empty, is passed over.)
StartsWherePrepared ==
  savedDistro # NoDistro => ResolveDistro(registered, savedDistro) \in toolsIn \cup spoilt

=============================================================================
