----------------------------- MODULE PeerConfig -----------------------------
(***************************************************************************)
(* The configuration of peers and peer groups: slots, settings that a peer *)
(* inherits from its group and from the default group, lists of capability *)
(* rules, the commands that change them, and what is left of it all after  *)
(* the configuration is saved and BGPmon restarted.                        *)
(***************************************************************************)
EXTENDS Integers, FiniteSets, SequencesExt

CONSTANTS
  Addresses,      \* addresses (and ports) of peers
  Names,          \* names of groups other than the default one
  MaxGroups,      \* MAX_PEER_GROUP_IDS
  Settable,       \* bound: the settings that commands set
  AsValues,       \* values of AS numbers
  OtherValues,    \* values of the other settings
  ClientAS,       \* AS number of the CLI client, a value of AS settings
  CliRules,       \* rules the CLI adds
  CliCaps,        \* announced capabilities the CLI adds
  Capabilities,   \* capabilities a peer's OPEN may hold
  Documents,      \* configuration files BGPmon is first started with
  MaxSet          \* bound: settings and rules set at once

Unset == -1
AnyValue == "any"     \* checkValueLen -1: a rule for all values of the code

\* The settings, by where their accessors are in peers.c.
RemoteSettings == {"remoteBGPID", "remoteAS", "remoteBGPVer", "remoteHoldtime"}
RemoteTexts == {"md5Passwd"}
LocalTexts == {"localAddr"}
LocalSettings == {"localPort", "localBGPID", "localAS", "localBGPVer", "localHoldtime"}
FlagSettings == {"labelAction", "routeRefreshAction", "enabled"}

\* Those that a command sets in a group, by where they are in peergroup.c.
GroupRemote == {"remoteAS", "remoteBGPVer", "remoteHoldtime"}
GroupTexts == {"md5Passwd"}
GroupLocal == {"localAS", "localHoldtime", "localBGPVer"}
GroupSettings == GroupRemote \cup GroupTexts \cup GroupLocal

Settings == RemoteSettings \cup RemoteTexts \cup LocalTexts \cup LocalSettings \cup FlagSettings
AsSettings == {"localAS", "remoteAS"}       \* 0 stands for "none"

\* setSessionConfigInUse takes them in this order.
Order == <<"localHoldtime", "localAddr", "localPort", "localAS", "localBGPVer", "localBGPID",
           "remoteAS", "remoteBGPVer", "remoteBGPID", "remoteHoldtime", "md5Passwd",
           "routeRefreshAction", "labelAction">>

Slots == 0..(MaxGroups - 1)
Default == "default"
Values(f) == IF f \in AsSettings THEN AsValues ELSE OtherValues
AllNames == Names \cup {Default}
Capability == [code : Nat, value : STRING]
Rule == [code : Nat, value : STRING, action : {"refuse", "allow", "require"}]

Own == [Settings -> Nat \cup {Unset}]

\* What a file may hold: a group's own group is the default one, as in every file
\* that BGPmon writes.
Entries(names, groupNames) ==
  [name : names, own : Own, rules : Seq(Rule), announce : Seq(Capability), group : groupNames]
File(doc) == /\ doc.groups \in Seq(Entries(AllNames, {Default}))
             /\ doc.peers \subseteq Entries(Addresses, AllNames)

ASSUME PeerConfigAssumption ==
  /\ Default \notin Names /\ "" \notin Names /\ MaxGroups \in Nat \ {0}
  /\ Settable \subseteq Settings
  /\ AsValues \cup OtherValues \subseteq Nat /\ ClientAS \in AsValues
  /\ CliRules \subseteq Rule /\ Capabilities \subseteq Capability
  /\ CliCaps \subseteq Capability
  /\ \A doc \in Documents : File(doc)

VARIABLES
  groups,     \* PeerGroups: a slot's group, or NoGroup
  peers,      \* Peers, by address: a peer's configuration, or NoPeer
  crashed,    \* a null or stray pointer was followed
  orphans     \* history: peers whose group has been deleted under them

configVars == <<groups, peers, crashed, orphans>>

NoGroup == [name |-> ""]
NoPeer == [group |-> ""]

(***************************************************************************)
(* Groups.                                                                 *)
(***************************************************************************)
\* createDefaultPeerGroup: every setting has a value, AS numbers are 0.
DefaultGroup ==
  [name |-> Default, groupID |-> -1, rules |-> <<>>, announce |-> <<>>,
   own |-> [f \in Settings |-> IF f \in AsSettings THEN 0 ELSE IF f = "md5Passwd" THEN Unset ELSE 1]]

Used(gs) == {i \in Slots : gs[i] # NoGroup}

\* findPeerGroupID.
GroupID(gs, n) ==
  IF \E i \in Used(gs) : gs[i].name = n
  THEN CHOOSE i \in Used(gs) : gs[i].name = n ELSE -1

AllUnset == [f \in Settings |-> Unset]

\* createPeerConf.
NewConfig(gs) ==
  [group |-> Default, groupID |-> GroupID(gs, Default),
   own |-> AllUnset, rules |-> <<>>, announce |-> <<>>]

NewGroup(n, c) == [name |-> n, groupID |-> c.groupID, own |-> c.own,
                   rules |-> c.rules, announce |-> c.announce]

CanAddGroup(gs, n) == GroupID(gs, n) = -1 /\ Used(gs) # Slots

\* createPeerGroupStruct: the first free slot.
AddGroup(gs, n, c) ==
  [gs EXCEPT ![CHOOSE i \in Slots \ Used(gs) : \A j \in Slots \ Used(gs) : i <= j] = NewGroup(n, c)]

(***************************************************************************)
(* Inheritance.                                                            *)
(***************************************************************************)
Missing(f) == IF f \in AsSettings THEN 0 ELSE Unset

\* A group with this ID is looked at, and its own group.
Dangles(gs, id) == id = -1 \/ (gs[id] # NoGroup /\ gs[id].groupID >= 0 /\ gs[gs[id].groupID] = NoGroup)

\* getPeerGroup...: the group's own setting, or that of the default group.
GroupGet(gs, id, f) ==
  IF gs[id] = NoGroup THEN Missing(f)
  ELSE IF gs[id].own[f] = Unset /\ gs[id].groupID >= 0 THEN gs[gs[id].groupID].own[f]
  ELSE gs[id].own[f]

\* The peer is made to refer to the default group.
ToDefault(gs, p) == [p EXCEPT !.group = Default, !.groupID = GroupID(gs, Default)]

Leaves(gs, p, f) == p.own[f] = Unset /\ GroupGet(gs, p.groupID, f) = Missing(f)

\* getPeer...: what a getter returns, and the peer it leaves.
PeerGet(gs, p, f) ==
  IF p.own[f] # Unset THEN p.own[f]
  ELSE GroupGet(gs, IF Leaves(gs, p, f) THEN GroupID(gs, Default) ELSE p.groupID, f)
AfterGet(gs, p, f) == IF Leaves(gs, p, f) THEN ToDefault(gs, p) ELSE p

\* A getter follows a null pointer, or an index of -1.
GetCrashes(gs, p, f) ==
  /\ p.own[f] = Unset
  /\ \/ Dangles(gs, p.groupID) /\ (p.groupID = -1 \/ gs[p.groupID].own[f] = Unset)
     \/ Leaves(gs, p, f) /\ GroupID(gs, Default) = -1

\* A setting is read; nothing is, after a crash.
ReadOne(gs, r, f) ==
  IF r.crash \/ GetCrashes(gs, r.peer, f) THEN [r EXCEPT !.crash = TRUE]
  ELSE [r EXCEPT !.peer = AfterGet(gs, r.peer, f)]

\* Several settings read one after the other: the peer, and if it comes to a crash.
Reading(gs, p, order) ==
  LET read[k \in 0..Len(order)] ==
        IF k = 0 THEN [peer |-> p, crash |-> FALSE] ELSE ReadOne(gs, read[k - 1], order[k])
  IN read[Len(order)]

(***************************************************************************)
(* Capabilities.                                                           *)
(***************************************************************************)
SamePattern(r, q) == r.code = q.code /\ r.value = q.value

\* One more rule, unless there is one of its pattern.
Holds(kept, r) == \E i \in 1..Len(kept) : SamePattern(kept[i], r)
Merge(kept, r) == IF Holds(kept, r) THEN kept ELSE Append(kept, r)

\* One of each pattern: the first.
Merged(list) ==
  LET kept[k \in 0..Len(list)] == IF k = 0 THEN <<>> ELSE Merge(kept[k - 1], list[k])
  IN kept[Len(list)]

\* Mutant: the default group's rules come first.
Inherited_Reversed(gs, p, own, its, defaults) == Merged(defaults \o its \o own)

\* The peer's own, its group's, the default group's.
Inherited(gs, p, own, its, defaults) == Merged(own \o its \o defaults)

\* getPeerReceiveCapabities, getPeerAnnounceCapabities.
DefaultOf(gs, p) == gs[p.groupID].groupID
ReceiveRules(gs, p) ==
  Inherited(gs, p, p.rules, gs[p.groupID].rules,
            IF DefaultOf(gs, p) >= 0 THEN gs[DefaultOf(gs, p)].rules ELSE <<>>)
Announced(gs, p) ==
  Inherited(gs, p, p.announce, gs[p.groupID].announce,
            IF DefaultOf(gs, p) >= 0 THEN gs[DefaultOf(gs, p)].announce ELSE <<>>)

ListsCrash(gs, p) == p.groupID = -1 \/ gs[p.groupID] = NoGroup \/ Dangles(gs, p.groupID)

Matches(r, c) == r.code = c.code /\ r.value \in {AnyValue, c.value}

\* One rule met while the scan looks for the decision on c.
Scan(c, found, r) ==
  IF ~Matches(r, c) \/ found.longest \/ r.action = "require" THEN found
  ELSE [refused |-> r.action = "refuse", longest |-> r.value # AnyValue]

Scanned(rules, c) ==
  LET found[k \in 0..Len(rules)] ==
        IF k = 0 THEN [refused |-> FALSE, longest |-> FALSE] ELSE Scan(c, found[k - 1], rules[k])
  IN found[Len(rules)]

\* checkCapabilities: no capability offered is refused, none required is missing.
Accepts(rules, offered) ==
  /\ \A c \in offered : ~Scanned(rules, c).refused
  /\ \A i \in 1..Len(rules) :
        rules[i].action = "require" => \E c \in offered : Matches(rules[i], c)

(***************************************************************************)
(* The configuration file.                                                 *)
(***************************************************************************)
\* saveOnePeerSetting: what is set is written.
Entry(name, c, group) == [name |-> name, own |-> c.own, rules |-> c.rules, announce |-> c.announce, group |-> group]

\* savePeerGroupsSettings: in the order of the slots, without slot 0; a group's place in
\* the file is its slot.
SavedGroups(gs) == [i \in Used(gs) \ {0} |-> Entry(gs[i].name, gs[i], Default)]

SavedPeers(ps) == {Entry(a, ps[a], ps[a].group) : a \in {b \in Addresses : ps[b] # NoPeer}}

Saved(gs, ps) == [groups |-> SavedGroups(gs), peers |-> SavedPeers(ps)]

\* readPeerConf: an AS number of 0 makes the whole entry invalid.
Valid(e) == \A f \in AsSettings : e.own[f] # 0

\* Mutant: a peer in a group that is not the default one refers to slot 0.
ReadEntry_NoGroup(gs, e) ==
  [group |-> e.group, groupID |-> GroupID(gs, Default),
   own |-> e.own, rules |-> e.rules, announce |-> e.announce]

ReadEntry(gs, e) ==
  [group |-> e.group, groupID |-> GroupID(gs, e.group),
   own |-> e.own, rules |-> e.rules, announce |-> e.announce]

\* readPeerGroupsSettings.
JustDefault == [i \in Slots |-> IF i = 0 THEN DefaultGroup ELSE NoGroup]
CanRead(gs, e) == Valid(e) /\ CanAddGroup(gs, e.name)
ReadOneGroup(gs, e) == IF CanRead(gs, e) THEN AddGroup(gs, e.name, ReadEntry(gs, e)) ELSE gs

\* The groups after so many places of the file, of which no more than MaxGroups are read;
\* a place that is empty is passed over.
GroupsAfter(doc) ==
  LET after[k \in 0..MaxGroups] ==
        IF k = 0 THEN JustDefault
        ELSE IF k \in DOMAIN doc.groups THEN ReadOneGroup(after[k - 1], doc.groups[k])
        ELSE after[k - 1]
  IN after
ReadGroups(doc) == GroupsAfter(doc)[MaxGroups]

\* readConfigFile: after a bad group no peer is read.
AllGroupsRead(doc) ==
  \A k \in 1..MaxGroups : k \in DOMAIN doc.groups => CanRead(GroupsAfter(doc)[k - 1], doc.groups[k])
ReadPeers(doc) ==
  LET good == {e \in doc.peers : Valid(e) /\ AllGroupsRead(doc)}
  IN [a \in Addresses |-> IF \E e \in good : e.name = a
                          THEN ReadEntry(ReadGroups(doc), CHOOSE e \in good : e.name = a)
                          ELSE NoPeer]

\* Peers whose group is not there.
Groupless(ps) == {a \in Addresses : ps[a] # NoPeer /\ ps[a].groupID = -1}

Start(doc) ==
  /\ groups' = ReadGroups(doc) /\ peers' = ReadPeers(doc) /\ crashed' = FALSE
  /\ orphans' = Groupless(ReadPeers(doc))

ConfigInit ==
  \E doc \in Documents : /\ groups = ReadGroups(doc) /\ peers = ReadPeers(doc)
                         /\ crashed = FALSE /\ orphans = Groupless(ReadPeers(doc))

(***************************************************************************)
(* Commands.                                                               *)
(***************************************************************************)
\* Settings that are set (of the default group, changed), and rules and
\* capabilities added by commands.
Weight(c, own) == Cardinality({f \in Settings : c.own[f] # own[f]}) + Len(c.announce)
                  + Len(SelectSeq(c.rules, LAMBDA r : r \in CliRules))
NumSet(gs, ps) ==
  FoldFunction(+, 0, [i \in Slots |-> IF gs[i] = NoGroup THEN 0
                                     ELSE Weight(gs[i], IF i = 0 THEN DefaultGroup.own ELSE AllUnset)])
  + FoldFunction(+, 0, [a \in Addresses |-> IF ps[a] = NoPeer THEN 0 ELSE Weight(ps[a], AllUnset)])
InBound == NumSet(groups', peers') <= MaxSet

\* The process is gone, and its state.
Crash ==
  /\ crashed' = TRUE /\ orphans' = {}
  /\ groups' = [i \in Slots |-> NoGroup] /\ peers' = [a \in Addresses |-> NoPeer]
Fine == crashed' = FALSE

\* getId with autoCreatePeer: the peer, created if there is none.
Found(a) == IF peers[a] # NoPeer THEN peers[a]
            ELSE [NewConfig(groups) EXCEPT !.own = [f \in Settings |-> IF f = "localAS" THEN ClientAS ELSE Unset]]

\* Without a default group createPeer fails and Peers[-1] is used.
NoPeerToSet(a) == peers[a] = NoPeer /\ GroupID(groups, Default) = -1

\* A command that changes a peer's own configuration.
ChangePeer(a, c) ==
  IF NoPeerToSet(a) THEN Crash
  ELSE peers' = [peers EXCEPT ![a] = c] /\ UNCHANGED <<groups, orphans>> /\ Fine /\ InBound

ChangeGroup(i, g) == groups' = [groups EXCEPT ![i] = g] /\ UNCHANGED <<peers, orphans>> /\ Fine /\ InBound

SetPeer(a, f, v) == ChangePeer(a, [Found(a) EXCEPT !.own[f] = v])
SetGroup(i, f, v) == i \in Used(groups) /\ ChangeGroup(i, [groups[i] EXCEPT !.own[f] = v])

Set(settings) ==
  \E f \in settings \cap Settable : \E v \in Values(f) :
     \/ \E a \in Addresses : SetPeer(a, f, v)
     \/ f \in GroupSettings /\ \E i \in Slots : SetGroup(i, f, v)

SetLocal == Set(LocalSettings)
SetRemote == Set(RemoteSettings \cup RemoteTexts)

\* label action, route refresh and enable: for a group they look for PeerGroups[-1].
SetFlag ==
  \/ \E a \in Addresses, f \in FlagSettings \cap Settable : \E v \in Values(f) : SetPeer(a, f, v)
  \/ FlagSettings \cap Settable # {} /\ Used(groups) # {} /\ Crash

\* add...Capability and remove...Capability: the list, or no change if it has it already, or not.
Added(list, x) == IF Contains(list, x) THEN {} ELSE {Append(list, x)}
Removed(list, x) == {RemoveAt(list, i) : i \in {j \in 1..Len(list) : list[j] = x /\ ~Contains(SubSeq(list, 1, j - 1), x)}}

ChangeRules(r) ==
  \/ \E a \in Addresses : \E l \in Added(Found(a).rules, r) \cup Removed(Found(a).rules, r) :
        ChangePeer(a, [Found(a) EXCEPT !.rules = l])
  \/ \E i \in Used(groups) : \E l \in Added(groups[i].rules, r) \cup Removed(groups[i].rules, r) :
        ChangeGroup(i, [groups[i] EXCEPT !.rules = l])
ChangeAnnounced(c) ==
  \/ \E a \in Addresses : \E l \in Added(Found(a).announce, c) \cup Removed(Found(a).announce, c) :
        ChangePeer(a, [Found(a) EXCEPT !.announce = l])
  \/ \E i \in Used(groups) : \E l \in Added(groups[i].announce, c) \cup Removed(groups[i].announce, c) :
        ChangeGroup(i, [groups[i] EXCEPT !.announce = l])

\* neighbor <name> peer-group.
CreateGroup(n) ==
  /\ GroupID(groups, Default) # -1 /\ CanAddGroup(groups, n)
  /\ groups' = AddGroup(groups, n, NewConfig(groups))
  /\ Fine /\ UNCHANGED <<peers, orphans>>

\* Mutant: the name alone.
Assign_NameOnly(a, n) ==
  /\ peers[a] # NoPeer /\ peers[a].group # n /\ GroupID(groups, n) # -1
  /\ peers' = [peers EXCEPT ![a].group = n]
  /\ orphans' = orphans \ {a} /\ Fine /\ UNCHANGED groups

\* setPeer_GroupName.  The name that the peer has already is no change: an
\* orphan whose group is there again, in another slot, keeps its groupID.
Assign(a, n) ==
  /\ peers[a] # NoPeer /\ peers[a].group # n /\ GroupID(groups, n) # -1
  /\ peers' = [peers EXCEPT ![a].group = n, ![a].groupID = GroupID(groups, n)]
  /\ orphans' = orphans \ {a} /\ Fine /\ UNCHANGED groups

\* deletePeerGroup: whoever refers to the slot is not told.
DeleteGroup(i) ==
  /\ i \in Used(groups)
  /\ groups' = [groups EXCEPT ![i] = NoGroup]
  /\ orphans' = orphans \cup {a \in Addresses : peers[a] # NoPeer /\ peers[a].groupID = i}
  /\ Fine /\ UNCHANGED peers

DeletePeer(a) ==
  /\ peers[a] # NoPeer
  /\ peers' = [peers EXCEPT ![a] = NoPeer] /\ orphans' = orphans \ {a}
  /\ Fine /\ UNCHANGED groups

\* Settings of a peer are read, and its lists if lists is TRUE.
ReadPeer(a, order, lists) ==
  /\ peers[a] # NoPeer
  /\ LET r == Reading(groups, peers[a], order)
     IN IF r.crash \/ (lists /\ ListsCrash(groups, r.peer)) THEN Crash
        ELSE /\ peers' = [peers EXCEPT ![a] = r.peer]
             /\ orphans' = IF r.peer # peers[a] THEN orphans \ {a} ELSE orphans
             /\ Fine /\ UNCHANGED groups

\* show running neighbor reads everything; show bgp neighbor the lists alone.
ShowRunningNeighbor(a) == ReadPeer(a, Append(Order, "enabled"), TRUE)
ShowBGPNeighbor(a) == ReadPeer(a, <<>>, TRUE)

\* setSessionConfigInUse, when the peer's thread takes the configuration.
SetSessionConfigInUse(a) == ReadPeer(a, Order, TRUE)

\* checkPeerConfiguration: both AS numbers, if it comes to that.
LaunchAllPeers(a) ==
  /\ peers[a] # NoPeer /\ ~GetCrashes(groups, peers[a], "enabled")
  /\ LET enabled == PeerGet(groups, peers[a], "enabled") = 1
         p == AfterGet(groups, peers[a], "enabled")
     IN ReadPeer(a, IF ~enabled THEN <<"enabled">>
                    ELSE IF ~GetCrashes(groups, p, "remoteAS") /\ PeerGet(groups, p, "remoteAS") = 0
                    THEN <<"enabled", "remoteAS">> ELSE <<"enabled", "remoteAS", "localAS">>, FALSE)

\* show running peer-group: each group, its settings and its lists.
ShowRunningPeerGroup(i) == i \in Used(groups) /\ Dangles(groups, i) /\ Crash

\* The configuration is written and BGPmon started with it.
Restart == Start(Saved(groups, peers))

Command ==
  \/ SetLocal \/ SetRemote \/ SetFlag
  \/ \E r \in CliRules : ChangeRules(r)
  \/ \E c \in CliCaps : ChangeAnnounced(c)
  \/ \E a \in Addresses :
       \/ \E n \in AllNames : Assign(a, n)
       \/ DeletePeer(a)
       \/ ShowRunningNeighbor(a) \/ ShowBGPNeighbor(a)
       \/ SetSessionConfigInUse(a) \/ LaunchAllPeers(a)
  \/ \E i \in Slots : DeleteGroup(i) \/ ShowRunningPeerGroup(i)
  \/ \E n \in Names : CreateGroup(n)

ConfigNext ==
  \/ ~crashed /\ (Command \/ Restart)
  \/ crashed /\ \E doc \in Documents : Start(doc)

ConfigSpec == ConfigInit /\ [][ConfigNext]_configVars

(***************************************************************************)
(* Properties.                                                             *)
(***************************************************************************)
GroupConfs == [name : AllNames, groupID : {-1} \cup Slots, own : Own, rules : Seq(Rule), announce : Seq(Capability)]
PeerConfs  == [group : AllNames, groupID : {-1} \cup Slots, own : Own, rules : Seq(Rule), announce : Seq(Capability)]

\* The shape of the tables.
TypeOK == /\ groups \in [Slots -> GroupConfs \cup {NoGroup}]
          /\ peers \in [Addresses -> PeerConfs \cup {NoPeer}]
          /\ crashed \in BOOLEAN /\ orphans \subseteq {a \in Addresses : peers[a] # NoPeer}

\* Peers whose references are as the commands left them.
Sound == {a \in Addresses : peers[a] # NoPeer /\ a \notin orphans /\ GroupID(groups, Default) = 0}

\* What the names say a setting is: own, the named group's, the default group's;
\* an AS number of 0 in a group is none.
SetIn(n, f) == GroupID(groups, n) # -1 /\ groups[GroupID(groups, n)].own[f] \notin {Unset, Missing(f)}
ByName(p, f) ==
  IF p.own[f] # Unset THEN p.own[f]
  ELSE IF SetIn(p.group, f) THEN groups[GroupID(groups, p.group)].own[f]
  ELSE groups[0].own[f]

\* A peer has the settings of the group it names (peers.c getters, deletePeerGroup,
\* setPeer_GroupName): whatever groups come and go, a peer whose own group was not
\* deleted reads its own value, or that of the group by that name, or the default's.
ReadsAsNamed ==
  \A a \in Sound, f \in Settings :
    LET p == peers[a] IN groups[p.groupID].name = p.group /\ PeerGet(groups, p, f) = ByName(p, f)

\* The rules in force by name: nearest level first.
Levels(p) == <<p.rules>> \o (IF p.group # Default THEN <<groups[GroupID(groups, p.group)].rules>> ELSE <<>>)
             \o <<groups[0].rules>>
Ruling(p, pat) ==     \* the action of the nearest level's first rule of that pattern
  LET has(l) == \E k \in 1..Len(l) : SamePattern(l[k], pat)
      level == CHOOSE i \in 1..Len(Levels(p)) : has(Levels(p)[i]) /\ \A j \in 1..(i - 1) : ~has(Levels(p)[j])
      list == Levels(p)[level]
      first == CHOOSE k \in 1..Len(list) : SamePattern(list[k], pat) /\ \A j \in 1..(k - 1) : ~SamePattern(list[j], pat)
  IN IF \E i \in 1..Len(Levels(p)) : has(Levels(p)[i]) THEN list[first].action ELSE "none"
Refused(p, c) ==
  LET exact == Ruling(p, [code |-> c.code, value |-> c.value])
      any == Ruling(p, [code |-> c.code, value |-> AnyValue])
  IN exact = "refuse" \/ (exact \notin {"refuse", "allow"} /\ any = "refuse")

\* A session opens by the rules of the peer (checkCapabilities, getPeerReceiveCapabities):
\* a rule nearer to the peer overrides the same rule of its group and of the default
\* group; a capability is judged by the rule for its value, else by the rule for its
\* code; all that is required must be offered.  The order of the lists is without effect.
OpensByTheRules ==
  \A a \in Sound, offered \in SUBSET Capabilities :
    Accepts(ReceiveRules(groups, peers[a]), offered) <=>
      /\ \A c \in offered : ~Refused(peers[a], c)
      /\ \A l \in ToSet(Levels(peers[a])) : \A r \in ToSet(l) :
           Ruling(peers[a], r) = "require" => \E c \in offered : Matches(r, c)

\* What can be written and read again.
Restorable ==
  /\ groups[0] = DefaultGroup
  /\ \A i \in Used(groups) \ {0} : Valid(groups[i])
  /\ \A a \in Addresses : peers[a] # NoPeer => Valid(peers[a]) /\ a \in Sound

\* Saving the configuration and starting again changes no peer (saveConfigFile,
\* readConfigFile): every peer has the settings, the rules and the capabilities it had,
\* unless the default group was changed, a group was deleted under a peer, or an AS
\* number was set to 0.
RestartKeepsPeers ==
  [][Restart /\ ~crashed /\ Restorable =>
       \A a \in Addresses :
         IF peers[a] = NoPeer THEN peers'[a] = NoPeer
         ELSE /\ \A f \in Settings : PeerGet(groups', peers'[a], f) = PeerGet(groups, peers[a], f)
              /\ ReceiveRules(groups', peers'[a]) = ReceiveRules(groups, peers[a])
              /\ Announced(groups', peers'[a]) = Announced(groups, peers[a])]_configVars
=============================================================================
