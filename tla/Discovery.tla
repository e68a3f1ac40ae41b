------------------------------ MODULE Discovery ------------------------------
(***************************************************************************)
(* Discovery of other devices: the Discoverer (localsend/scan.go and        *)
(* discovery_scan.go), the loop of the receiver that rebinds it when its    *)
(* sockets fail (startDiscoveryWithRetry), and a scan that uses whichever   *)
(* Discoverer is current (recv/scan.go).                                    *)
(*                                                                         *)
(* Every binding is a new Discoverer, an element of Disc; it shares the     *)
(* table of devices of the previous one.  Of a table only the devices that  *)
(* were confirmed since the running scan began are kept, each with one      *)
(* channel, so the time to live and the size limit of old entries do not    *)
(* appear.  Announcing is left out: it changes no state here.  The listener *)
(* on IPv6, which never ends the loop, is not told apart.                   *)
(***************************************************************************)
EXTENDS Integers, FiniteSets

CONSTANTS
    Disc,              \* Discoverer instances; bounds the number of rebinds
    Device,            \* devices elsewhere
    HostOf,            \* the host of each: several may run on one
    None,
    MaxResponses,      \* maxConcurrentAnnouncementResponses
    MaxReceiveErrors   \* maxConsecutiveReceiveErrors

ASSUME DiscoveryAssumption ==
    /\ IsFiniteSet(Disc) /\ Disc # {} /\ IsFiniteSet(Device) /\ None \notin Disc
    /\ DOMAIN HostOf = Device
    /\ MaxResponses \in Nat \ {0} /\ MaxReceiveErrors \in Nat \ {0}

VARIABLES
    sock,        \* sockets of a Discoverer: "none", "open", "closed" (stop is closed, too)
    shares,      \* the Discoverer whose table it uses
    table,       \* devices confirmed since the scan began, by table
    answering    \* responsesInFlight: <<Discoverer, Device>>

VARIABLES
    current,     \* FileReceiver.discoverier
    previous,    \* previousDiscovery
    rebinder,    \* startDiscoveryWithRetry
    mine,        \* its Discoverer
    errors,      \* consecutive errors of its listener
    cancelled    \* the runtime context is cancelled

VARIABLES
    scan,        \* FileReceiver.Scan; after it "reported" or "cut", if without an error
    seen,        \* the Discoverer that it read
    woken,       \* the discoveryChanged channel that it read is closed
    legacy,      \* the subnet probes of the scan: "off", "run", "over"
    result,      \* the devices that the scan would report
    confirmed,   \* history: devices confirmed while the scan ran, by anyone
    gathered     \* history: those that were when it last gathered its result

discVars == <<sock, shares, table, answering>>
rebindVars == <<current, previous, rebinder, mine, errors, cancelled>>
scanVars == <<scan, seen, woken, legacy, result, confirmed, gathered>>

\* A scan runs.
ScanRuns == {"ready", "read", "collect", "gather", "gatherStopped", "wait"}

\* Goroutines that answer announcements, of each Discoverer.
ResponsesBounded == \A d \in Disc : Cardinality({a \in answering : a[1] = d}) <= MaxResponses

DiscoveryTypeOK ==
    /\ sock \in [Disc -> {"none", "open", "closed"}]
    /\ shares \in [Disc -> Disc] /\ table \in [Disc -> SUBSET Device]
    /\ answering \subseteq Disc \X Device /\ ResponsesBounded
    /\ current \in Disc \cup {None} /\ previous \in Disc \cup {None}
    /\ mine \in Disc \cup {None} /\ seen \in Disc \cup {None}
    /\ rebinder \in {"off", "look", "create", "install", "listen", "clear", "close", "retry",
                     "exit"}
    /\ errors \in 0 .. MaxReceiveErrors
    /\ cancelled \in BOOLEAN /\ woken \in BOOLEAN
    /\ scan \in ScanRuns \cup {"idle", "reported", "cut"}
    /\ legacy \in {"off", "run", "over"}
    /\ result \subseteq Device /\ confirmed \subseteq Device /\ gathered \subseteq Device

DiscoveryInit ==
    /\ sock = [d \in Disc |-> "none"] /\ shares = [d \in Disc |-> d]
    /\ table = [d \in Disc |-> {}] /\ answering = {}
    /\ current = None /\ previous = None /\ rebinder = "off" /\ mine = None
    /\ errors = 0 /\ cancelled = FALSE
    /\ scan = "idle" /\ seen = None /\ woken = FALSE /\ legacy = "off"
    /\ result = {} /\ confirmed = {} /\ gathered = {}

-----------------------------------------------------------------------------
(* The Discoverer.                                                         *)

OwnTable(d) == UNCHANGED shares                                      \* mutant

\* A rebound Discoverer goes on with the devices of the one before.
ShareDiscoveries(d) ==
    shares' = [shares EXCEPT ![d] = IF previous = None THEN d ELSE shares[previous]]

Unbound  == {d \in Disc : sock[d] = "none"}
NextDisc == CHOOSE d \in Unbound : TRUE    \* one is like another

NewDiscoverer(d) == sock' = [sock EXCEPT ![d] = "open"]

\* createDiscoverer, when the sockets can be bound.
CreateDiscoverer(d) ==
    /\ NewDiscoverer(d)
    /\ ShareDiscoveries(d)
    /\ previous' = d

Shutdown(d) == sock' = [sock EXCEPT ![d] = "closed"]

\* DiscoveredSince, for the start of the running scan: a map by hosts, so of the devices
\* of one host it keeps the one that it comes to last.
DiscoveredSince(d) ==
    {found \in SUBSET table[shares[d]] :
        /\ \A p \in table[shares[d]] : \E q \in found : HostOf[q] = HostOf[p]
        /\ \A p, q \in found : HostOf[p] = HostOf[q] => p = q}

\* PutDiscovered: p is confirmed to d.
PutDiscovered(d, p) ==
    IF scan \in ScanRuns
    THEN /\ table' = [table EXCEPT ![shares[d]] = @ \cup {p}]
         /\ confirmed' = confirmed \cup {p}
    ELSE UNCHANGED <<table, confirmed>>

AlwaysRespond(d) == TRUE                                             \* mutant

MayRespond(d) == Cardinality({a \in answering : a[1] = d}) < MaxResponses

\* An announcement is answered by a goroutine of its own, one for each device and not
\* more than the limit; other announcements are dropped.
Announcement(d, p) ==
    /\ rebinder = "listen" /\ d = mine /\ sock[d] = "open" /\ errors < MaxReceiveErrors
    /\ <<d, p>> \notin answering /\ MayRespond(d)
    /\ answering' = answering \cup {<<d, p>>}
    /\ errors' = 0
    /\ UNCHANGED <<sock, shares, table, current, previous, rebinder, mine, cancelled, scanVars>>

\* The device has confirmed with the answer to our request, perhaps after d is closed.
ResponseConfirmed(d, p) ==
    /\ <<d, p>> \in answering
    /\ answering' = answering \ {<<d, p>>}
    /\ PutDiscovered(d, p)
    /\ UNCHANGED <<sock, shares, rebindVars, scan, seen, woken, legacy, result,
                   gathered>>

ResponseFails(d, p) ==
    /\ <<d, p>> \in answering
    /\ answering' = answering \ {<<d, p>>}
    /\ UNCHANGED <<sock, shares, table, rebindVars, scanVars>>

\* A datagram that is malformed, our own, no announcement, already being answered or
\* over the limit.
DatagramIgnored ==
    /\ rebinder = "listen" /\ sock[mine] = "open" /\ errors \in 1 .. MaxReceiveErrors - 1
    /\ errors' = 0
    /\ UNCHANGED <<discVars, current, previous, rebinder, mine, cancelled, scanVars>>

ReceiveFails ==
    /\ rebinder = "listen" /\ sock[mine] = "open" /\ errors < MaxReceiveErrors
    /\ errors' = errors + 1
    /\ UNCHANGED <<discVars, current, previous, rebinder, mine, cancelled, scanVars>>

\* A device registers over HTTP: registerDiscoveredDevice.
RegisterDevice(p) ==
    /\ LET d == IF current # None THEN current ELSE previous
       IN  d # None /\ PutDiscovered(d, p)
    /\ UNCHANGED <<sock, shares, answering, rebindVars, scan, seen, woken, legacy, result,
                   gathered>>

-----------------------------------------------------------------------------
(* startDiscoveryWithRetry.                                                *)

InstallSilently(d) == current' = d /\ UNCHANGED woken                \* mutant

\* installDiscoverer and clearDiscoverer close the channel of those who wait.
InstallDiscoverer(d) == current' = d /\ woken' = TRUE

RebindLook ==
    /\ rebinder = "look"
    /\ IF cancelled THEN rebinder' = "exit" /\ UNCHANGED <<mine, errors>>
       ELSE IF current = None THEN rebinder' = "create" /\ UNCHANGED <<mine, errors>>
       ELSE rebinder' = "listen" /\ mine' = current /\ errors' = 0
    /\ UNCHANGED <<discVars, current, previous, cancelled, scanVars>>

RebindCreate ==
    /\ rebinder = "create" /\ Unbound # {}
    /\ CreateDiscoverer(NextDisc)
    /\ rebinder' = "install" /\ mine' = NextDisc
    /\ UNCHANGED <<table, answering, current, errors, cancelled, scanVars>>

RebindCreateFails ==
    /\ rebinder = "create"
    /\ rebinder' = "retry"
    /\ UNCHANGED <<discVars, current, previous, mine, errors, cancelled, scanVars>>

RebindInstall ==
    /\ rebinder = "install"
    /\ InstallDiscoverer(mine)
    /\ rebinder' = "listen" /\ errors' = 0
    /\ UNCHANGED <<discVars, previous, mine, cancelled, scan, seen, legacy, result,
                   confirmed, gathered>>

NoHook == FALSE                                                      \* mutant

HookRuns == cancelled

\* The function that the loop attached to the context while it listens.
ShutdownHook ==
    /\ rebinder = "listen" /\ HookRuns /\ sock[mine] = "open"
    /\ Shutdown(mine)
    /\ UNCHANGED <<shares, table, answering, rebindVars, scanVars>>

\* Listen returns: its socket is closed, or it failed too often.
ListenReturns ==
    /\ rebinder = "listen" /\ (sock[mine] = "closed" \/ errors = MaxReceiveErrors)
    /\ rebinder' = "clear"
    /\ UNCHANGED <<discVars, current, previous, mine, errors, cancelled, scanVars>>

ClearDiscoverer ==
    /\ rebinder = "clear"
    /\ rebinder' = "close"
    /\ IF current = mine THEN current' = None /\ woken' = TRUE ELSE UNCHANGED <<current, woken>>
    /\ UNCHANGED <<discVars, previous, mine, errors, cancelled, scan, seen, legacy, result,
                   confirmed, gathered>>

RebindClose ==
    /\ rebinder = "close"
    /\ Shutdown(mine)
    /\ rebinder' = IF cancelled THEN "exit" ELSE "retry"
    /\ mine' = None /\ errors' = 0
    /\ UNCHANGED <<shares, table, answering, current, previous, cancelled, scanVars>>

RebindRetry ==
    /\ rebinder = "retry"
    /\ rebinder' \in {"look"} \cup (IF cancelled THEN {"exit"} ELSE {})
    /\ UNCHANGED <<discVars, current, previous, mine, errors, cancelled, scanVars>>

RebindStep ==
    \/ RebindLook \/ RebindCreateFails \/ RebindInstall
    \/ ListenReturns \/ ClearDiscoverer \/ RebindClose \/ RebindRetry

-----------------------------------------------------------------------------
(* FileReceiver.Scan and Discoverer.Scan.  A second scan is refused (scanMu). *)

\* What the scan has read goes with it.
ScanReturns(how) == scan' = how /\ seen' = None /\ woken' = FALSE

\* Every confirmation so far is older than this scan.
ScanBegins ==
    /\ scan \notin ScanRuns
    /\ scan' = "ready"
    /\ table' = [d \in Disc |-> {}] /\ result' = {} /\ confirmed' = {} /\ gathered' = {}
    /\ UNCHANGED <<sock, shares, answering, rebindVars, seen, woken, legacy>>

\* The current Discoverer and the channel are read together.
ScanReads ==
    /\ scan = "read"
    /\ seen' = current /\ woken' = FALSE
    /\ scan' = IF current = None THEN "wait" ELSE "collect"
    /\ UNCHANGED <<discVars, rebindVars, legacy, result, confirmed, gathered>>

\* Subnet probes run beside the multicast window, or as its fallback.
LegacyStarts ==
    /\ scan = "collect" /\ legacy = "off"
    /\ legacy' = "run"
    /\ UNCHANGED <<discVars, rebindVars, scan, seen, woken, result, confirmed, gathered>>

ProbeConfirmed(p) ==
    /\ legacy = "run"
    /\ PutDiscovered(seen, p)
    /\ UNCHANGED <<sock, shares, answering, rebindVars, scan, seen, woken, legacy, result,
                   gathered>>

LegacyEnds ==
    /\ legacy = "run"
    /\ legacy' = "over"
    /\ UNCHANGED <<discVars, rebindVars, scan, seen, woken, result, confirmed, gathered>>

\* The windows are over, or the deadline is, or the Discoverer has been shut down.
CollectEnds ==
    /\ scan = "collect"
    /\ scan' \in {"gather"} \cup (IF sock[seen] = "closed" THEN {"gatherStopped"} ELSE {})
    /\ UNCHANGED <<discVars, rebindVars, seen, woken, legacy, result, confirmed, gathered>>

\* Once the probes have ended, the result is DiscoveredSince(seen).  It is returned,
\* unless the Discoverer was shut down: then the scan waits for the next one.
ScanGathers ==
    /\ scan \in {"gather", "gatherStopped"} /\ legacy # "run"
    /\ result' \in DiscoveredSince(seen) /\ gathered' = confirmed
    /\ legacy' = "off"
    /\ \/ scan = "gather" /\ ScanReturns("reported")
       \/ scan = "gatherStopped" /\ scan' = "wait" /\ UNCHANGED <<seen, woken>>
    /\ UNCHANGED <<discVars, rebindVars, confirmed>>

ScanWakes ==
    /\ scan = "wait" /\ woken
    /\ scan' = "read"
    /\ UNCHANGED <<discVars, rebindVars, seen, woken, legacy, result, confirmed, gathered>>

\* The deadline ends a scan that waits.  It returns the result that it has, without an
\* error as long as there is something in it or a Discoverer again.
ScanTimesOut ==
    /\ scan \in {"ready", "wait"} /\ (result # {} \/ current # None)
    /\ ScanReturns("cut")
    /\ UNCHANGED <<discVars, rebindVars, legacy, result, confirmed, gathered>>

\* A scan that waits ends with an error: of its caller, of Stop, or without a Discoverer
\* at the deadline.  So does one that has gathered, if its probes failed.
ScanFails ==
    /\ scan \in {"ready", "wait", "gather"} /\ legacy # "run"
    /\ ScanReturns("idle")
    /\ legacy' = "off" /\ result' = {} /\ confirmed' = {} /\ gathered' = {}
    /\ UNCHANGED <<discVars, rebindVars>>

ScanStep ==
    \/ ScanBegins \/ ScanReads \/ LegacyStarts \/ LegacyEnds \/ CollectEnds \/ ScanGathers
    \/ ScanWakes \/ ScanTimesOut \/ ScanFails \/ \E p \in Device : ProbeConfirmed(p)

-----------------------------------------------------------------------------
(* What discovery promises.                                                *)

Hosts(devices) == {HostOf[p] : p \in devices}

\* A scan that returns with the end of its windows reports the host of every device that
\* was confirmed while it ran, by whichever Discoverer, probe or registration: rebinding
\* the sockets loses none, though a late answer may arrive at a Discoverer that has been
\* replaced.  One that its deadline cuts off while it waits for the sockets reports all
\* that were confirmed until it last gathered its result.
ScanSeesAll ==
    /\ scan = "reported" => Hosts(confirmed) \subseteq Hosts(result)
    /\ scan \in {"wait", "cut"} => Hosts(gathered) \subseteq Hosts(result)

\* A scan does not sleep through a rebind: as long as its channel is open, no Discoverer
\* but the one it has already used has been installed.
NoMissedChange == scan = "wait" /\ ~woken => current \in {None, seen}
=============================================================================
