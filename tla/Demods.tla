------------------------------- MODULE Demods -------------------------------
(***************************************************************************)
(* The registered devices and who of them gets a package: the option -R    *)
(* and the registry (src/src/rtl_433.c, src/src/r_api.c), and              *)
(* run_ook_demods and run_fsk_demods, which run the devices of each        *)
(* priority until one of them decodes something.                           *)
(***************************************************************************)
EXTENDS List, Selection

CONSTANTS
  Table,              \* cfg->devices: sequence of [name, modulation, priority, disabled]
  Disabled,           \* _disabled: up to which the plugin wants them
  FirstSize,          \* 100: the size r_init_cfg gives the list
  UINT_MAX,
  MaxEntries,         \* bound: entries of the list
  MaxOptions          \* bound: options of a session

Protocols == DOMAIN Table

ASSUME DemodsAssumption ==
  /\ Table \in Seq([ name : STRING, modulation : {"OOK", "FSK"}, priority : 0 .. UINT_MAX,
                   disabled : 0 .. 3 ])
  /\ Disabled \in 0 .. 3 /\ FirstSize \in Nat \ {0} /\ UINT_MAX \in Nat
  /\ MaxEntries \in Nat /\ MaxOptions \in Nat
  /\ NULL \notin Protocols /\ Junk \notin Protocols /\ Junk # NULL

VARIABLES
  r_devs,             \* demod->r_devs: a list of protocols
  no_default_devices,
  phase,              \* "options", "unregister", "ready", "run", "over"
  i,                  \* place in the list
  unregistered,       \* the protocol that is unregistered
  package,            \* the modulation of the package
  priority, next_priority,
  p_events,           \* messages decoded from the package
  ran, decoded,       \* auxiliary: places whose slicer was run, and those with a message
  options             \* auxiliary: options given, up to MaxOptions

registry == <<r_devs, no_default_devices, unregistered, options>>
running  == <<package, priority, next_priority, p_events, ran, decoded>>
vars     == <<registry, running, phase, i>>

\* The loop over all protocols pushes those that are not disabled.
Chosen(limit) == {p \in Protocols : Table[p].disabled <= limit}

register_all_protocols(list, limit) ==
  LET pushed[p \in 0 .. Len(Table)] ==
        IF p = 0 THEN list
          ELSE IF p \in Chosen(limit) THEN list_push(pushed[p - 1], p) ELSE pushed[p - 1]
  IN  pushed[Len(Table)]

Init ==
  /\ r_devs = list_ensure_size(NoList, FirstSize)
  /\ no_default_devices = FALSE /\ unregistered = NULL /\ options = 0
  /\ phase = "options" /\ i = 0
  /\ package = "OOK" /\ priority = 0 /\ next_priority = 0 /\ p_events = 0
  /\ ran = {} /\ decoded = {}

-----------------------------------------------------------------------------
(* Options.                                                                 *)

Option == phase = "options" /\ options < MaxOptions /\ options' = options + 1

\* -R n; a hidden protocol ends the program instead.
register_protocol(p) ==
  /\ Option /\ Table[p].disabled <= 2 /\ r_devs.len < MaxEntries
  /\ r_devs' = list_push(r_devs, p)
  /\ no_default_devices' = TRUE
  /\ UNCHANGED <<running, unregistered, phase, i>>

\* -R -n: without any -R before it, the default devices are registered first.
StartUnregister(p) ==
  /\ Option /\ Table[p].disabled <= 2
  /\ r_devs' = IF no_default_devices THEN r_devs ELSE register_all_protocols(r_devs, 0)
  /\ no_default_devices' = TRUE
  /\ phase' = "unregister" /\ i' = 0 /\ unregistered' = p
  /\ UNCHANGED running

SameName(p, q) == Table[p].name = Table[q].name

\* Mutant: the entry behind a removed one is skipped.
UnregisterSkips ==
  /\ phase = "unregister"
  /\ IF i >= r_devs.len
       THEN phase' = "options" /\ unregistered' = NULL /\ i' = 0 /\ UNCHANGED r_devs
     ELSE /\ UNCHANGED <<phase, unregistered>>
          /\ r_devs' = IF SameName(r_devs.elems[i], unregistered)
                         THEN list_remove(r_devs, i) ELSE r_devs
          /\ i' = i + 1
  /\ UNCHANGED <<running, no_default_devices, options>>

\* A removed entry is followed by the next one in its place.
unregister_protocol ==
  /\ phase = "unregister"
  /\ IF i >= r_devs.len
       THEN phase' = "options" /\ unregistered' = NULL /\ i' = 0 /\ UNCHANGED r_devs
     ELSE /\ UNCHANGED <<phase, unregistered>>
          /\ IF SameName(r_devs.elems[i], unregistered)
               THEN r_devs' = list_remove(r_devs, i) /\ i' = i
               ELSE i' = i + 1 /\ UNCHANGED r_devs
  /\ UNCHANGED <<running, no_default_devices, options>>

\* -R 0.
DisableAll ==
  /\ Option
  /\ r_devs' = list_clear(r_devs) /\ no_default_devices' = TRUE
  /\ UNCHANGED <<running, unregistered, phase, i>>

\* The session starts.
StartSession ==
  /\ phase = "options" /\ phase' = "ready"
  /\ r_devs' = IF no_default_devices THEN r_devs ELSE register_all_protocols(r_devs, Disabled)
  /\ UNCHANGED <<running, no_default_devices, unregistered, options, i>>

-----------------------------------------------------------------------------
(* A package.                                                               *)

Device(k)    == Table[r_devs.elems[k]]
Entries      == 0 .. r_devs.len - 1
InFamily(k)  == Device(k).modulation = package

\* run_ook_demods or run_fsk_demods.
StartPackage(modulation) ==
  /\ phase = "ready" /\ phase' = IF UINT_MAX > 0 THEN "run" ELSE "ready"
  /\ package' = modulation
  /\ p_events' = 0 /\ priority' = 0 /\ next_priority' = UINT_MAX /\ i' = 0
  /\ ran' = {} /\ decoded' = {}
  /\ UNCHANGED registry

\* Mutant: the next priority of the list, not the smallest.
AnyLarger(k) == Device(k).priority > priority

Smaller(k) == Device(k).priority > priority /\ Device(k).priority < next_priority

\* The loop looks at one entry; its slicer may decode messages.
VisitDevice ==
  /\ phase = "run" /\ ~Ends(r_devs, i)
  /\ next_priority' = IF Smaller(i) THEN Device(i).priority ELSE next_priority
  /\ IF Device(i).priority = priority /\ InFamily(i)
       THEN /\ ran' = ran \cup {i}
            /\ \E events \in 0 .. 1 :
                 /\ p_events' = p_events + events
                 /\ decoded' = IF events > 0 THEN decoded \cup {i} ELSE decoded
       ELSE UNCHANGED <<ran, decoded, p_events>>
  /\ i' = i + 1
  /\ UNCHANGED <<registry, package, priority, phase>>

\* Mutant: decoded messages do not stop the loop.
NextPriorityAlways ==
  /\ phase = "run" /\ Ends(r_devs, i)
  /\ priority' = next_priority
  /\ IF next_priority < UINT_MAX
       THEN next_priority' = UINT_MAX /\ i' = 0 /\ UNCHANGED phase
       ELSE phase' = "over" /\ i' = 0 /\ UNCHANGED next_priority
  /\ UNCHANGED <<registry, package, p_events, ran, decoded>>

\* Mutant: next_priority is not reset.
NextPriorityKept ==
  /\ phase = "run" /\ Ends(r_devs, i)
  /\ priority' = next_priority
  /\ IF p_events = 0 /\ next_priority < UINT_MAX
       THEN i' = 0 /\ UNCHANGED <<phase, next_priority>>
       ELSE phase' = "over" /\ i' = 0 /\ UNCHANGED next_priority
  /\ UNCHANGED <<registry, package, p_events, ran, decoded>>

\* The next smallest priority, unless something was decoded or there is none.
NextPriority ==
  /\ phase = "run" /\ Ends(r_devs, i)
  /\ priority' = next_priority
  /\ IF p_events = 0 /\ next_priority < UINT_MAX
       THEN next_priority' = UINT_MAX /\ i' = 0 /\ UNCHANGED phase
       ELSE phase' = "over" /\ i' = 0 /\ UNCHANGED next_priority
  /\ UNCHANGED <<registry, package, p_events, ran, decoded>>

PackageDone ==
  /\ phase = "over" /\ phase' = "ready"
  /\ UNCHANGED <<registry, running, i>>

\* r_free_cfg; another session starts with nothing registered.
r_free_cfg ==
  /\ phase = "ready" /\ phase' = "options"
  /\ r_devs' = list_ensure_size(NoList, FirstSize)
  /\ no_default_devices' = FALSE /\ unregistered' = NULL /\ options' = 0
  /\ UNCHANGED <<running, i>>

Package == VisitDevice \/ NextPriority

Next ==
  \/ \E p \in Protocols : register_protocol(p) \/ StartUnregister(p)
  \/ unregister_protocol \/ DisableAll \/ StartSession
  \/ \E modulation \in {"OOK", "FSK"} : StartPackage(modulation)
  \/ Package \/ PackageDone \/ r_free_cfg

Spec == Init /\ [][Next]_vars

\* The loops run to their ends.
FairSpec == Spec /\ WF_vars(unregister_protocol) /\ WF_vars(Package)

-----------------------------------------------------------------------------
(* Safety.                                                                  *)

TypeOK ==
  /\ r_devs.size \in Nat /\ r_devs.len \in 0 .. r_devs.size
  /\ r_devs.elems \in [0 .. r_devs.size - 1 -> Protocols \cup {NULL, Junk}]
  /\ no_default_devices \in BOOLEAN
  /\ phase \in {"options", "unregister", "ready", "run", "over"}
  /\ i \in 0 .. r_devs.len
  /\ unregistered \in Protocols \cup {NULL} /\ (phase = "unregister" => unregistered # NULL)
  /\ package \in {"OOK", "FSK"}
  /\ priority \in 0 .. UINT_MAX /\ next_priority \in 0 .. UINT_MAX
  /\ p_events \in Nat /\ ran \subseteq Nat /\ decoded \subseteq Nat
  /\ options \in Nat

\* The loops over the devices meet each of them and stop behind the last, whatever was
\* pushed, removed and cleared before.
DevicesTerminated == Terminated(r_devs)

\* The entries before this one in the order in which the loop takes them.
Taken(k) ==
  Device(k).priority < priority \/ (Device(k).priority = priority /\ k < i)

\* The devices that have seen the package are those of its modulation in the order of
\* their priorities, and among them those of their order in the list: none is left out
\* by the search for the next priority, and none is run that comes later.
RanInOrder ==
  phase = "run" => ran = {k \in Entries : InFamily(k) /\ Taken(k)}

\* A device of a later priority does not see a package that an earlier one decoded, and
\* a package that none decodes is seen by all of them; the highest number is never run.
LowestPriorityWins ==
  phase = "over" =>
    /\ \A k \in decoded, q \in ran : Device(q).priority <= Device(k).priority
    /\ \A k \in decoded, q \in Entries :
         InFamily(q) /\ Device(q).priority <= Device(k).priority => q \in ran
    /\ decoded = {} => ran = {k \in Entries : InFamily(k) /\ Device(k).priority < UINT_MAX}

\* The registry is the set of devices that the options ask for: what is unregistered
\* counts as gone at once.
Left == {p \in Protocols : phase = "unregister" => ~SameName(p, unregistered)}

AllProtocols == [p \in Protocols |-> p]

Registry == [k \in 1 .. r_devs.len |-> r_devs.elems[k - 1]]

Abstract == INSTANCE DeviceSet WITH
  NameOf <- [p \in Protocols |-> Table[p].name],
  Defaults <- {Only(AllProtocols, Chosen(limit)) : limit \in {0, Disabled}},
  enabled <- Only(Registry, Left),
  given <- options

ImplementsDeviceSet == Abstract!Spec

\* A package is finished, whatever the devices decode.
PackageEnds == (phase = "run") ~> (phase = "over")
=============================================================================
