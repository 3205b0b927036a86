-------------------------------- MODULE Cli --------------------------------
(***************************************************************************)
(* The command line: sessions on sockets, their passwords and access       *)
(* levels, the commands on access control lists (Acl.tla) and on numeric   *)
(* settings, and the configuration file that keeps both.  The file is read *)
(* section by section; an unreadable value ends the reading after its      *)
(* section, and what has been read by then replaces the file.              *)
(***************************************************************************)
EXTENDS Acl, FiniteSetsExt

CONSTANTS
  MaxConnections,  \* CLI sessions at a time
  Settings,        \* of those that Setting describes
  Inputs,          \* numbers the users give
  SettingsByHand,  \* settings, and
  ListsByHand      \* lists of files BGPmon may be first started with

MaxInt == 2  \* stands for 65536, the largest number the file may hold
Values == -1..(MaxInt + 1)

(***************************************************************************)
(* The settings: section, value if none is read, the values a command      *)
(* stores and those that can be read.  One number of a section stands for  *)
(* all that are stored and read in the same way.                           *)
(***************************************************************************)
\* setClientsControlListenPort and setMrtControlListenPort know no largest port.
StoredPorts == {v \in Values : v > 0}
StoredPeriods == {v \in Values : v >= 0}
CheckedPorts == 1..(MaxInt - 1)

QueueDefault == 1

ClientsPort == [section |-> "clients", initial |-> 1, stored |-> StoredPorts, read |-> 1..MaxInt]
MrtPort == [section |-> "mrt", initial |-> 1, stored |-> StoredPorts, read |-> 1..MaxInt]
PacingInterval ==
  [section |-> "queue", initial |-> QueueDefault, stored |-> Values, read |-> 0..MaxInt]
StatusInterval == [section |-> "periodic", initial |-> 1, stored |-> StoredPeriods, read |-> 0..MaxInt]
LoginPort == [section |-> "login", initial |-> 1, stored |-> CheckedPorts, read |-> 1..MaxInt]

Setting ==
  [clientsPort |-> ClientsPort, mrtPort |-> MrtPort, pacingInterval |-> PacingInterval,
   statusInterval |-> StatusInterval, loginPort |-> LoginPort]

Initial == [s \in Settings |-> Setting[s].initial]

ASSUME CliAssumption ==
  /\ Settings \subseteq DOMAIN Setting /\ Inputs \subseteq Values
  /\ SettingsByHand \subseteq [Settings -> Values] /\ MaxConnections \in Nat
  /\ \A doc \in ListsByHand : IsDocument(doc)

\* COMMAND_MASK_ENUM, and what comes before a session has one.
Enabled == {"enable", "configure", "acl"}
Modes == {"off", "password", "access", "asked"} \cup Enabled

VARIABLES
  listening,         \* the login control thread has its socket
  mode,              \* commandMask of each session; "asked" for the enable password
  enableModeActive,  \* LoginSettings.enableModeActive
  settings,          \* the numeric settings
  file               \* the configuration file

cliVars == <<listening, mode, enableModeActive, settings, file>>
vars == <<aclVars, cliVars>>

(***************************************************************************)
(* The configuration file.                                                 *)
(***************************************************************************)
Sections ==
  <<"clients", "mrt", "chains", "groups", "peers", "queue", "periodic", "acl", "login">>

Position(section) == CHOOSE i \in DOMAIN Sections : Sections[i] = section
PositionOf(s) == Position(Setting[s].section)

\* A section is read to its end; the first with an invalid entry is the last to be read.
LastRead(doc) ==
  Min({PositionOf(s) : s \in {t \in Settings : doc.settings[t] \notin Setting[t].read}}
      \cup {Len(Sections) + 1})
ReadWhole(doc) == LastRead(doc) > Len(Sections)

ReadSettings(doc) ==
  [s \in Settings |->
     IF PositionOf(s) <= LastRead(doc) /\ doc.settings[s] \in Setting[s].read
     THEN doc.settings[s] ELSE Initial[s]]

\* The lists, and then the names of those in use, if the reading gets there.
ReadLists(doc) == IF Position("acl") <= LastRead(doc) THEN doc.lists ELSE NoFile

Running == [settings |-> settings, lists |-> SavedDocument]

(***************************************************************************)
(* Sessions.                                                               *)
(***************************************************************************)
Sessions == {u \in Users : mode[u] # "off"}

Exits(u) == mode' = [mode EXCEPT ![u] = "off"] /\ current' = [current EXCEPT ![u] = None]
Enters(u, m) == mode' = [mode EXCEPT ![u] = m]

\* Where the command tree has a command.
Allowed(u, m) == up /\ mode[u] = m

\* getMessage has less than a line end: the connection is closed, or taken to be.
Lost(u, modes) == up /\ mode[u] \in modes

\* BGPmon is gone, and its sessions with it.
Aborted ==
  /\ mode' = [u \in Users |-> "off"] /\ enableModeActive' = FALSE /\ listening' = FALSE
  /\ UNCHANGED <<settings, file>>

\* loginControlThread opens its socket, or tries again later.
startLoginControlListener ==
  /\ up /\ ~ listening /\ listening' = TRUE
  /\ UNCHANGED <<aclVars, mode, enableModeActive, settings, file>>

\* loginControlThread's select has a connection.
Arrives(u) == up /\ listening /\ mode[u] = "off"

\* startLogin, up to the prompt for the password; a refused connection changes nothing.
startLogin(u) ==
  /\ Arrives(u) /\ Cardinality(Sessions) # MaxConnections
  /\ use["cli"] \in Live
  /\ \E a \in Address : checkACL(heap[use["cli"]].rules, a) # "deny"
  /\ Enters(u, "password")
  /\ UNCHANGED <<aclVars, listening, enableModeActive, settings, file>>

\* The access password is right, or the session ends.
Password(u) ==
  /\ Allowed(u, "password")
  /\ \/ Enters(u, "access") /\ UNCHANGED current
     \/ Exits(u)
  /\ UNCHANGED <<heap, chain, use, up, commands, listening, enableModeActive, settings, file>>

\* enable: the flag is tested before the password is asked for, and set after.
enable(u) ==
  /\ Allowed(u, "access") /\ ~ enableModeActive /\ Enters(u, "asked")
  /\ UNCHANGED <<aclVars, listening, enableModeActive, settings, file>>

EnablePassword(u) ==
  /\ Allowed(u, "asked")
  /\ \/ Enters(u, "enable") /\ enableModeActive' = TRUE
     \/ Enters(u, "access") /\ UNCHANGED enableModeActive
  /\ UNCHANGED <<aclVars, listening, settings, file>>

\* A connection that ends at the prompt for the enable password ends BGPmon (log_fatal).
AskedFails(u) == Lost(u, {"asked"}) /\ Crash /\ UNCHANGED commands /\ Aborted

\* disable, exitEnable.
disable(u) ==
  /\ Allowed(u, "enable") /\ enableModeActive' = FALSE /\ Enters(u, "access")
  /\ UNCHANGED <<aclVars, listening, settings, file>>

configure(u) ==
  /\ Allowed(u, "enable") /\ Enters(u, "configure")
  /\ UNCHANGED <<aclVars, listening, enableModeActive, settings, file>>

\* exitConfigure, endConfigure.
exitConfigure(u) ==
  /\ Allowed(u, "configure") /\ Enters(u, "enable")
  /\ UNCHANGED <<aclVars, listening, enableModeActive, settings, file>>

\* "exit" with no more than access.
exit(u) ==
  /\ Allowed(u, "access") /\ Exits(u)
  /\ UNCHANGED <<heap, chain, use, up, commands, listening, enableModeActive, settings, file>>

\* Mutant: the flag stays as it is.
Broken_KeepsFlag(u) ==
  /\ Lost(u, Enabled \cup {"access"}) /\ Exits(u)
  /\ UNCHANGED <<heap, chain, use, up, commands, listening, enableModeActive, settings, file>>

\* A connection ends between two commands: the flag is cleared, whoever has set it.
Broken(u) ==
  /\ Lost(u, Enabled \cup {"access"}) /\ Exits(u) /\ enableModeActive' = FALSE
  /\ UNCHANGED <<heap, chain, use, up, commands, listening, settings, file>>

(***************************************************************************)
(* Commands that change something.                                         *)
(***************************************************************************)
\* The rest of a command on lists: it may have been BGPmon's last.
Goes(u, m) ==
  IF up' THEN Enters(u, m) /\ UNCHANGED <<listening, enableModeActive, settings, file>>
  ELSE Aborted

ListCommand(u) ==
  \/ /\ Allowed(u, "configure")
     /\ \/ \E n \in Names : ACL(u, n) /\ Goes(u, "acl")
        \/ \E n \in Names : noACL(u, n) /\ Goes(u, "configure")
        \/ \E l \in Listeners, n \in Names : SetListenerAcl(u, l, n) /\ Goes(u, "configure")
        \/ noACLRule(u, 0) /\ Goes(u, "configure")
  \/ /\ Allowed(u, "acl")
     /\ \/ exitACL(u) /\ (Goes(u, "configure") \/ Goes(u, "enable"))
        \/ \E i \in -1..MaxRules : noACLRule(u, i) /\ Goes(u, "acl")
        \/ \E i \in -1..MaxRules, r \in RuleInputs : ACLRule(u, r, i) /\ Goes(u, "acl")

\* "client-listener update port v", "queue pacing interval v" and their like.
Set(u, s, v) ==
  /\ Counted /\ Allowed(u, "configure")
  /\ v \in Setting[s].stored
  /\ settings' = [settings EXCEPT ![s] = v]
  /\ UNCHANGED <<heap, chain, use, current, up, listening, mode, enableModeActive, file>>

\* "copy running-config startup-config".
copyRunningConfig(u) ==
  /\ Counted /\ Allowed(u, "enable")
  /\ IF \E l \in Listeners : use[l] \notin Live THEN Crash /\ Aborted
     ELSE file' = Running
          /\ UNCHANGED <<heap, chain, use, current, up, listening, mode, enableModeActive, settings>>

Refused(l) == CheckFreed(l) /\ Aborted

\* A new process.  What it could read replaces a file it could not read whole.
Restart ==
  /\ Counted /\ up' = TRUE
  /\ settings' = ReadSettings(file) /\ AclLoad(ReadLists(file))
  /\ file' = IF ReadWhole(file) THEN file ELSE Running'
  /\ mode' = [u \in Users |-> "off"] /\ enableModeActive' = FALSE /\ listening' = FALSE

Init ==
  \E given \in {[settings |-> Initial, lists |-> NoFile]}
               \cup [settings : SettingsByHand, lists : ListsByHand] :
    /\ settings = ReadSettings(given)
    /\ heap = LoadedHeap(ReadLists(given)) /\ chain = LoadedChain(ReadLists(given))
    /\ use = LoadedUse(ReadLists(given))
    /\ file = IF ReadWhole(given) THEN given ELSE Running
    /\ up = TRUE /\ commands = 0 /\ current = [u \in Users |-> None]
    /\ mode = [u \in Users |-> "off"] /\ enableModeActive = FALSE /\ listening = FALSE

Next ==
  \/ startLoginControlListener \/ Restart
  \/ \E l \in Listeners : Refused(l)
  \/ \E u \in Users :
       \/ startLogin(u) \/ Password(u) \/ enable(u) \/ EnablePassword(u) \/ AskedFails(u)
       \/ disable(u) \/ configure(u) \/ exitConfigure(u) \/ exit(u) \/ Broken(u)
       \/ ListCommand(u) \/ copyRunningConfig(u)
       \/ \E s \in Settings, v \in Inputs : Set(u, s, v)

Spec == Init /\ [][Next]_vars

(***************************************************************************)
(* Properties.                                                             *)
(***************************************************************************)
Unreadable == {s \in Settings : settings[s] \notin Setting[s].read}
Found(l) == use[l] \in Live /\ use[l] \in ToSet(chain)

(* What a restart from a file saved now keeps (saveConfigFile,             *)
(* readConfigFile): a setting that can be read and that no section with an *)
(* unreadable one comes before; and, if there is none before the lists,    *)
(* what every listener whose list has a name says of every address.        *)
RestartKeeps ==
  up /\ (\A l \in Listeners : use[l] \in Live) =>
    LET read == ReadSettings(Running)
        lists == ReadLists(Running)
        InFront(place) == \A t \in Unreadable : place <= PositionOf(t)
    IN /\ \A s \in Settings \ Unreadable : InFront(PositionOf(s)) => read[s] = settings[s]
       /\ InFront(Position("acl")) =>
            \A l \in Listeners, a \in Address :
              Found(l) => checkACL(LoadedHeap(lists)[LoadedUse(lists)[l]].rules, a)
                            = checkACL(heap[use[l]].rules, a)

(* Whatever values the commands have stored, or the file held, one restart *)
(* leaves a file that the next one reads whole (main saves what it has     *)
(* read in place of a file it could not read).                             *)
RestartRepairs == [][Restart => ReadWhole(file')]_vars

(* The right to enable mode is not lost with a session: the flag that      *)
(* keeps others out is set only while some session is in enable mode or a  *)
(* mode entered from there (enableModeActive, enableModeInactive).         *)
EnableNotStuck == enableModeActive => \E u \in Users : mode[u] \in Enabled
=============================================================================
