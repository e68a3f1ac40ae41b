------------------------- MODULE FileReceiver_proofs -------------------------
(***************************************************************************)
(* Proofs about FileReceiver, and with it Discovery, for any addresses,     *)
(* limits, devices and number of rebinds.                                   *)
(*                                                                         *)
(* The counters agree with the sums over all addresses (SumLemmas); with    *)
(* them the limit on connections bounds the guesses of a PIN (LimitInv).    *)
(* A scan gathers every device because all Discoverers that were ever bound *)
(* share one table (TableInv), and none is used that was not bound          *)
(* (BoundInv); the result keeps what it has gathered (ResultInv).           *)
(***************************************************************************)
EXTENDS FileReceiver, SumLemmas

\* Nothing is bound before Start, and the loop has a Discoverer while it listens.
LifeInv ==
    /\ start = "init" => rebinder = "off" /\ previous = None
    /\ rebinder \in {"install", "listen", "clear", "close"} => mine # None

\* Whatever Discoverer anyone holds was bound.
BoundInv ==
    /\ \A d \in {current, previous, mine, seen} \ {None} : sock[d] # "none"
    /\ \A a \in answering : sock[a[1]] # "none"

\* All Discoverers bound so far share the table that has every confirmed device.
TableInv ==
    /\ previous = None => confirmed = {} /\ \A d \in Disc : sock[d] = "none"
    /\ previous # None =>
           /\ confirmed \subseteq table[shares[previous]]
           /\ \A d \in Disc : sock[d] # "none" => shares[d] = shares[previous]

\* A scan that collects has a Discoverer, and probes run for such a scan only.
ScanInv ==
    /\ scan \in {"collect", "gather", "gatherStopped"} => seen # None
    /\ legacy # "off" => scan \in {"collect", "gather", "gatherStopped"}

\* The channel that a scan has read stays open only while the Discoverer is the same.
WakeInv ==
    scan \in {"collect", "gather", "gatherStopped", "wait"} => woken \/ current \in {None, seen}

\* What was confirmed before the last gathering is in the result, by its host.
ResultInv ==
    /\ Hosts(gathered) \subseteq Hosts(result)
    /\ scan = "reported" => confirmed = gathered

\* Every check of a PIN under way needs a connection of its own.
LimitInv ==
    \A i \in IP \ {Loopback} :
        /\ perIP[i] <= MaxPerIP
        /\ attempts[i] + conns[i]["checked"] < MaxPINAttempts + MaxPerIP

\* The inductive invariant.
RInv == /\ TypeOK /\ LifeInv /\ BoundInv /\ TableInv /\ ScanInv /\ WakeInv
        /\ ResultInv /\ CountersMatch /\ LimitInv

-----------------------------------------------------------------------------
(* Connections by address and state, and the sums over them.               *)

ConnTable == [IP -> [ConnState -> Nat]]

OpenOf(c)    == [i \in IP |-> c[i]["idle"] + c[i]["checked"] + (c[i]["upload"] + c[i]["saved"])]
UploadsOf(c) == [i \in IP |-> c[i]["upload"] + c[i]["saved"]]

\* Both are numbers at every address, so their sums are numbers.
LEMMA SumsAreNat ==
    ASSUME NEW c \in ConnTable
    PROVE  /\ OpenOf(c) \in [IP -> Nat] /\ UploadsOf(c) \in [IP -> Nat]
           /\ SumFunction(OpenOf(c)) \in Nat /\ SumFunction(UploadsOf(c)) \in Nat
<1>1. OpenOf(c) \in [IP -> Nat] /\ UploadsOf(c) \in [IP -> Nat]
  BY DEF ConnTable, ConnState, OpenOf, UploadsOf
<1> QED
  BY <1>1, SumNat, ReceiverAssumption

\* The sums follow a change at one address.
LEMMA SumsFollow ==
    ASSUME NEW c \in ConnTable, NEW e \in ConnTable, NEW i \in IP,
           \A j \in IP \ {i} : \A s \in ConnState : e[j][s] = c[j][s]
    PROVE  /\ SumFunction(OpenOf(e)) = SumFunction(OpenOf(c)) + OpenOf(e)[i] - OpenOf(c)[i]
           /\ SumFunction(UploadsOf(e)) =
                  SumFunction(UploadsOf(c)) + UploadsOf(e)[i] - UploadsOf(c)[i]
<1>1. /\ OpenOf(c) \in [IP -> Int] /\ OpenOf(e) \in [IP -> Int]
      /\ UploadsOf(c) \in [IP -> Int] /\ UploadsOf(e) \in [IP -> Int]
  BY SumsAreNat
<1>2. \A j \in IP \ {i} : OpenOf(e)[j] = OpenOf(c)[j] /\ UploadsOf(e)[j] = UploadsOf(c)[j]
  BY DEF ConnState, OpenOf, UploadsOf
<1>3. SumFunction(OpenOf(e)) = SumFunction(OpenOf(c)) + OpenOf(e)[i] - OpenOf(c)[i]
  BY <1>1, <1>2, SumChange, ReceiverAssumption
<1>4. SumFunction(UploadsOf(e)) = SumFunction(UploadsOf(c)) + UploadsOf(e)[i] - UploadsOf(c)[i]
  BY <1>1, <1>2, SumChange, ReceiverAssumption
<1> QED
  BY <1>3, <1>4

\* What is open, and what is uploaded, at one address.
UploadsIn(x) == x["upload"] + x["saved"]
OpenIn(x)    == x["idle"] + x["checked"] + UploadsIn(x)

\* The functions that are summed have these values.
LEMMA CountsAt ==
    ASSUME NEW c \in ConnTable, NEW i \in IP
    PROVE  /\ \A s \in ConnState : c[i][s] \in Nat
           /\ OpenOf(c)[i] = OpenIn(c[i]) /\ UploadsOf(c)[i] = UploadsIn(c[i])
BY DEF ConnTable, OpenOf, UploadsOf, OpenIn, UploadsIn

\* A connection goes from one state to another: nothing else changes.
LEMMA MoveCounts ==
    ASSUME conns \in ConnTable, NEW i \in IP, NEW s \in ConnState, NEW u \in ConnState, s # u,
           Move(i, s, u)
    PROVE  /\ conns' \in ConnTable
           /\ conns'[i][s] = conns[i][s] - 1 /\ conns'[i][u] = conns[i][u] + 1
           /\ \A r \in ConnState \ {s, u} : conns'[i][r] = conns[i][r]
           /\ \A j \in IP \ {i} : \A r \in ConnState : conns'[j][r] = conns[j][r]
BY DEF ConnTable, Move

-----------------------------------------------------------------------------
(* The counters.                                                           *)

\* CountersMatch, with what it counts as functions.
Matches(c, t, p, run, a, m) ==
    /\ t = SumFunction(OpenOf(c))
    /\ \A i \in IP \ {Loopback} : p[i] = OpenOf(c)[i]
    /\ run = "run" => a = SumFunction(UploadsOf(c)) /\ m = (a > 0)

\* It is the same, before and after a step.
LEMMA MatchesIsCountersMatch ==
    /\ CountersMatch <=> Matches(conns, total, perIP, process, active, marker)
    /\ CountersMatch' <=> Matches(conns', total', perIP', process', active', marker')
<1>1. /\ [i \in IP |-> Open(i)] = OpenOf(conns) /\ [i \in IP |-> Uploads(i)] = UploadsOf(conns)
      /\ \A i \in IP : Open(i) = OpenOf(conns)[i]
  BY DEF Open, Uploads, OpenOf, UploadsOf
<1>2. /\ [i \in IP |-> Open(i)]' = OpenOf(conns') /\ [i \in IP |-> Uploads(i)]' = UploadsOf(conns')
      /\ \A i \in IP : Open(i)' = OpenOf(conns')[i]
  BY DEF Open, Uploads, OpenOf, UploadsOf
<1>3. CountersMatch <=> Matches(conns, total, perIP, process, active, marker)
  BY <1>1, Zenon DEF CountersMatch, Matches
<1>4. CountersMatch' <=> Matches(conns', total', perIP', process', active', marker')
  BY <1>2, Zenon DEF CountersMatch, Matches
<1> QED
  BY <1>3, <1>4

\* From c to e, n connections and k uploads are added at address i.
Changes(c, e, i, n, k) ==
    /\ e \in ConnTable
    /\ \A j \in IP \ {i} : \A r \in ConnState : e[j][r] = c[j][r]
    /\ OpenIn(e[i]) = OpenIn(c[i]) + n /\ UploadsIn(e[i]) = UploadsIn(c[i]) + k

\* The counter of the connections by address follows.
Adds(p, q, i, n) == \A j \in IP \ {Loopback} : q[j] = IF j = i THEN p[j] + n ELSE p[j]

\* The counters follow a change at one address, if they are changed by as much.
LEMMA MatchesFollows ==
    ASSUME NEW c \in ConnTable, NEW e, NEW i \in IP, NEW n \in Int, NEW k \in Int,
           Changes(c, e, i, n, k), NEW p, NEW q, Adds(p, q, i, n),
           NEW t, NEW a, NEW m, Matches(c, t, p, "run", a, m), NEW l, l = (a + k > 0)
    PROVE  Matches(e, t + n, q, "run", a + k, l)
<1> USE DEF Changes, Adds
<1>0. OpenOf(e)[i] = OpenOf(c)[i] + n /\ UploadsOf(e)[i] = UploadsOf(c)[i] + k
  BY CountsAt
<1>1. /\ OpenOf(c) \in [IP -> Nat] /\ UploadsOf(c) \in [IP -> Nat]
      /\ OpenOf(e) \in [IP -> Nat] /\ UploadsOf(e) \in [IP -> Nat]
      /\ SumFunction(OpenOf(c)) \in Nat /\ SumFunction(UploadsOf(c)) \in Nat
  BY SumsAreNat
<1>2. /\ SumFunction(OpenOf(e)) = SumFunction(OpenOf(c)) + OpenOf(e)[i] - OpenOf(c)[i]
      /\ SumFunction(UploadsOf(e)) =
             SumFunction(UploadsOf(c)) + UploadsOf(e)[i] - UploadsOf(c)[i]
  BY SumsFollow
<1>3. t + n = SumFunction(OpenOf(e))
  BY <1>0, <1>1, <1>2 DEF Matches
<1>4. a + k = SumFunction(UploadsOf(e))
  BY <1>0, <1>1, <1>2 DEF Matches
<1>5. ASSUME NEW j \in IP \ {Loopback}
      PROVE  q[j] = OpenOf(e)[j]
  <2>1. CASE j = i
    BY <1>0, <2>1 DEF Matches
  <2>2. CASE j # i
    <3>1. OpenOf(e)[j] = OpenOf(c)[j]
      BY <2>2 DEF OpenOf, ConnState
    <3> QED
      BY <2>2, <3>1 DEF Matches
  <2> QED
    BY <2>1, <2>2
<1> QED
  BY <1>3, <1>4, <1>5 DEF Matches

\* The limiter and the marker count every connection and every upload once.
LEMMA CountStep ==
    ASSUME TypeOK, CountersMatch, Next
    PROVE  conns' \in ConnTable /\ CountersMatch'
<1> USE DEF connVars, sideVars, lifeVars, Outer
<1>1. /\ process = "run" /\ conns \in ConnTable /\ perIP \in [IP -> Int]
      /\ Matches(conns, total, perIP, "run", active, marker)
  BY MatchesIsCountersMatch DEF Next, TypeOK, ConnTable
<1> DEFINE Goal == conns' \in ConnTable
                   /\ Matches(conns', total', perIP', process', active', marker')
<1> SUFFICES Goal
  BY MatchesIsCountersMatch
<1>0. 0 \in Int /\ 1 \in Int /\ -1 \in Int
  OBVIOUS
<1>2. ASSUME UNCHANGED <<conns, total, perIP, process, active, marker>>
      PROVE  Goal
  BY <1>1, <1>2
<1>3. ASSUME NEW i \in IP, Accept(i)
      PROVE  Goal
  <2>1. /\ conns' \in ConnTable /\ conns'[i]["idle"] = conns[i]["idle"] + 1
        /\ conns'[i]["checked"] = conns[i]["checked"]
        /\ conns'[i]["upload"] = conns[i]["upload"] /\ conns'[i]["saved"] = conns[i]["saved"]
        /\ \A j \in IP \ {i} : \A r \in ConnState : conns'[j][r] = conns[j][r]
    BY <1>1, <1>3 DEF Accept, ConnTable, ConnState
  <2>2. Changes(conns, conns', i, 1, 0)
    <3>1. /\ conns[i]["idle"] \in Nat /\ conns[i]["checked"] \in Nat
          /\ conns[i]["upload"] \in Nat /\ conns[i]["saved"] \in Nat
      BY <1>1 DEF ConnTable, ConnState
    <3>2. UploadsIn(conns'[i]) = UploadsIn(conns[i]) + 0 /\ UploadsIn(conns[i]) \in Nat
      BY <2>1, <3>1 DEF UploadsIn
    <3>3. OpenIn(conns'[i]) = OpenIn(conns[i]) + 1
      BY <2>1, <3>1, <3>2 DEF OpenIn
    <3> QED
      BY <2>1, <3>2, <3>3 DEF Changes
  <2>3. /\ total' = total + 1 /\ process' = "run" /\ active' = active + 0
        /\ marker' = (active + 0 > 0)
        /\ Adds(perIP, perIP', i, 1)
    BY <1>1, <1>3 DEF Accept, Count, Matches, TypeOK, Adds
  <2>4. Matches(conns', total + 1, perIP', "run", active + 0, marker')
    BY <1>0, <1>1, <2>2, <2>3, MatchesFollows
  <2> QED
    BY <2>1, <2>3, <2>4
<1>4. ASSUME NEW i \in IP, CloseConn(i)
      PROVE  Goal
  <2>1. /\ conns' \in ConnTable /\ conns'[i]["idle"] = conns[i]["idle"] + (-1)
        /\ conns'[i]["checked"] = conns[i]["checked"]
        /\ conns'[i]["upload"] = conns[i]["upload"] /\ conns'[i]["saved"] = conns[i]["saved"]
        /\ \A j \in IP \ {i} : \A r \in ConnState : conns'[j][r] = conns[j][r]
    BY <1>1, <1>4 DEF CloseConn, ConnTable, ConnState
  <2>2. Changes(conns, conns', i, (-1), 0)
    <3>1. /\ conns[i]["idle"] \in Nat /\ conns[i]["checked"] \in Nat
          /\ conns[i]["upload"] \in Nat /\ conns[i]["saved"] \in Nat
      BY <1>1 DEF ConnTable, ConnState
    <3>2. UploadsIn(conns'[i]) = UploadsIn(conns[i]) + 0 /\ UploadsIn(conns[i]) \in Nat
      BY <2>1, <3>1 DEF UploadsIn
    <3>3. OpenIn(conns'[i]) = OpenIn(conns[i]) + (-1)
      BY <2>1, <3>1, <3>2 DEF OpenIn
    <3> QED
      BY <2>1, <3>2, <3>3 DEF Changes
  <2>3. OpenOf(conns)[i] >= 1 /\ OpenOf(conns)[i] \in Nat
    BY <1>1, <1>4 DEF CloseConn, OpenOf, ConnTable, ConnState
  <2>4. Adds(perIP, perIP', i, (-1))
    BY <1>1, <1>4, <2>3 DEF CloseConn, Release, Matches, Adds
  <2>5. /\ total' = total + (-1) /\ process' = "run" /\ active' = active + 0
        /\ marker' = (active + 0 > 0)
    BY <1>1, <1>4 DEF CloseConn, Release, Matches, TypeOK, Adds
  <2>6. Matches(conns', total + (-1), perIP', "run", active + 0, marker')
    BY <1>0, <1>1, <2>2, <2>4, <2>5, MatchesFollows
  <2> QED
    BY <2>1, <2>5, <2>6
<1>5. ASSUME NEW i \in IP, AskLimiter(i)
      PROVE  Goal
  <2>1. /\ conns' \in ConnTable
        /\ conns'[i]["idle"] = conns[i]["idle"] - 1 /\ conns'[i]["checked"] = conns[i]["checked"] + 1
        /\ conns'[i]["upload"] = conns[i]["upload"] /\ conns'[i]["saved"] = conns[i]["saved"]
        /\ \A j \in IP \ {i} : \A r \in ConnState : conns'[j][r] = conns[j][r]
    BY <1>1, <1>5, MoveCounts DEF AskLimiter, ConnState
  <2>2. Changes(conns, conns', i, 0, 0)
    <3>1. /\ conns[i]["idle"] \in Nat /\ conns[i]["checked"] \in Nat
          /\ conns[i]["upload"] \in Nat /\ conns[i]["saved"] \in Nat
      BY <1>1 DEF ConnTable, ConnState
    <3>2. UploadsIn(conns'[i]) = UploadsIn(conns[i]) + 0 /\ UploadsIn(conns[i]) \in Nat
      BY <2>1, <3>1 DEF UploadsIn
    <3>3. OpenIn(conns'[i]) = OpenIn(conns[i]) + 0
      BY <2>1, <3>1, <3>2 DEF OpenIn
    <3> QED
      BY <2>1, <3>2, <3>3 DEF Changes
  <2>3. /\ total' = total + 0 /\ process' = "run" /\ active' = active + 0
        /\ marker' = (active + 0 > 0)
        /\ Adds(perIP, perIP', i, 0)
    BY <1>1, <1>5 DEF AskLimiter, Matches, TypeOK, Adds
  <2>4. Matches(conns', total + 0, perIP', "run", active + 0, marker')
    BY <1>0, <1>1, <2>2, <2>3, MatchesFollows
  <2> QED
    BY <2>1, <2>3, <2>4
<1>6. ASSUME NEW i \in IP, ComparePIN(i)
      PROVE  Goal
  <2>1. /\ conns' \in ConnTable
        /\ conns'[i]["checked"] = conns[i]["checked"] - 1 /\ conns'[i]["idle"] = conns[i]["idle"] + 1
        /\ conns'[i]["upload"] = conns[i]["upload"] /\ conns'[i]["saved"] = conns[i]["saved"]
        /\ \A j \in IP \ {i} : \A r \in ConnState : conns'[j][r] = conns[j][r]
    BY <1>1, <1>6, MoveCounts DEF ComparePIN, ConnState
  <2>2. Changes(conns, conns', i, 0, 0)
    <3>1. /\ conns[i]["idle"] \in Nat /\ conns[i]["checked"] \in Nat
          /\ conns[i]["upload"] \in Nat /\ conns[i]["saved"] \in Nat
      BY <1>1 DEF ConnTable, ConnState
    <3>2. UploadsIn(conns'[i]) = UploadsIn(conns[i]) + 0 /\ UploadsIn(conns[i]) \in Nat
      BY <2>1, <3>1 DEF UploadsIn
    <3>3. OpenIn(conns'[i]) = OpenIn(conns[i]) + 0
      BY <2>1, <3>1, <3>2 DEF OpenIn
    <3> QED
      BY <2>1, <3>2, <3>3 DEF Changes
  <2>3. /\ total' = total + 0 /\ process' = "run" /\ active' = active + 0
        /\ marker' = (active + 0 > 0)
        /\ Adds(perIP, perIP', i, 0)
    BY <1>1, <1>6 DEF ComparePIN, Matches, TypeOK, Adds
  <2>4. Matches(conns', total + 0, perIP', "run", active + 0, marker')
    BY <1>0, <1>1, <2>2, <2>3, MatchesFollows
  <2> QED
    BY <2>1, <2>3, <2>4
<1>7. ASSUME NEW i \in IP, BeginUpload(i)
      PROVE  Goal
  <2>1. /\ conns' \in ConnTable
        /\ conns'[i]["idle"] = conns[i]["idle"] - 1 /\ conns'[i]["upload"] = conns[i]["upload"] + 1
        /\ conns'[i]["checked"] = conns[i]["checked"] /\ conns'[i]["saved"] = conns[i]["saved"]
        /\ \A j \in IP \ {i} : \A r \in ConnState : conns'[j][r] = conns[j][r]
    BY <1>1, <1>7, MoveCounts DEF BeginUpload, ConnState
  <2>2. Changes(conns, conns', i, 0, 1)
    <3>1. /\ conns[i]["idle"] \in Nat /\ conns[i]["checked"] \in Nat
          /\ conns[i]["upload"] \in Nat /\ conns[i]["saved"] \in Nat
      BY <1>1 DEF ConnTable, ConnState
    <3>2. UploadsIn(conns'[i]) = UploadsIn(conns[i]) + 1 /\ UploadsIn(conns[i]) \in Nat
      BY <2>1, <3>1 DEF UploadsIn
    <3>3. OpenIn(conns'[i]) = OpenIn(conns[i]) + 0
      BY <2>1, <3>1, <3>2 DEF OpenIn
    <3> QED
      BY <2>1, <3>2, <3>3 DEF Changes
  <2>3. /\ total' = total + 0 /\ process' = "run" /\ active' = active + 1
        /\ marker' = (active + 1 > 0)
        /\ Adds(perIP, perIP', i, 0)
    <3>1. active \in Nat /\ marker' = TRUE
      BY <1>7 DEF BeginUpload, TypeOK
    <3>2. (active + 1 > 0) = TRUE
      BY <3>1
    <3>3. marker' = (active + 1 > 0)
      BY <3>1, <3>2, Zenon
    <3>4. /\ total' = total + 0 /\ process' = "run" /\ active' = active + 1
          /\ Adds(perIP, perIP', i, 0)
      BY <1>1, <1>7 DEF BeginUpload, TypeOK, Adds
    <3> QED
      BY <3>3, <3>4, Zenon
  <2>4. Matches(conns', total + 0, perIP', "run", active + 1, marker')
    BY <1>0, <1>1, <2>2, <2>3, MatchesFollows
  <2> QED
    BY <2>1, <2>3, <2>4
<1>8. ASSUME NEW i \in IP, LogTransfer(i)
      PROVE  Goal
  <2>1. /\ conns' \in ConnTable
        /\ conns'[i]["upload"] = conns[i]["upload"] - 1 /\ conns'[i]["saved"] = conns[i]["saved"] + 1
        /\ conns'[i]["idle"] = conns[i]["idle"] /\ conns'[i]["checked"] = conns[i]["checked"]
        /\ \A j \in IP \ {i} : \A r \in ConnState : conns'[j][r] = conns[j][r]
    BY <1>1, <1>8, MoveCounts DEF LogTransfer, ConnState
  <2>2. Changes(conns, conns', i, 0, 0)
    <3>1. /\ conns[i]["idle"] \in Nat /\ conns[i]["checked"] \in Nat
          /\ conns[i]["upload"] \in Nat /\ conns[i]["saved"] \in Nat
      BY <1>1 DEF ConnTable, ConnState
    <3>2. UploadsIn(conns'[i]) = UploadsIn(conns[i]) + 0 /\ UploadsIn(conns[i]) \in Nat
      BY <2>1, <3>1 DEF UploadsIn
    <3>3. OpenIn(conns'[i]) = OpenIn(conns[i]) + 0
      BY <2>1, <3>1, <3>2 DEF OpenIn
    <3> QED
      BY <2>1, <3>2, <3>3 DEF Changes
  <2>3. /\ total' = total + 0 /\ process' = "run" /\ active' = active + 0
        /\ marker' = (active + 0 > 0)
        /\ Adds(perIP, perIP', i, 0)
    BY <1>1, <1>8 DEF LogTransfer, Matches, TypeOK, Adds
  <2>4. Matches(conns', total + 0, perIP', "run", active + 0, marker')
    BY <1>0, <1>1, <2>2, <2>3, MatchesFollows
  <2> QED
    BY <2>1, <2>3, <2>4
<1>9. ASSUME NEW i \in IP, EndUpload(i), Move(i, "upload", "idle")
      PROVE  Goal
  <2>1. /\ conns' \in ConnTable
        /\ conns'[i]["upload"] = conns[i]["upload"] - 1 /\ conns'[i]["idle"] = conns[i]["idle"] + 1
        /\ conns'[i]["checked"] = conns[i]["checked"] /\ conns'[i]["saved"] = conns[i]["saved"]
        /\ \A j \in IP \ {i} : \A r \in ConnState : conns'[j][r] = conns[j][r]
    BY <1>1, <1>9, MoveCounts DEF EndUpload, ConnState
  <2>2. Changes(conns, conns', i, 0, (-1))
    <3>1. /\ conns[i]["idle"] \in Nat /\ conns[i]["checked"] \in Nat
          /\ conns[i]["upload"] \in Nat /\ conns[i]["saved"] \in Nat
      BY <1>1 DEF ConnTable, ConnState
    <3>2. UploadsIn(conns'[i]) = UploadsIn(conns[i]) + (-1) /\ UploadsIn(conns[i]) \in Nat
      BY <2>1, <3>1 DEF UploadsIn
    <3>3. OpenIn(conns'[i]) = OpenIn(conns[i]) + 0
      BY <2>1, <3>1, <3>2 DEF OpenIn
    <3> QED
      BY <2>1, <3>2, <3>3 DEF Changes
  <2>3. /\ total' = total + 0 /\ process' = "run" /\ active' = active + (-1)
        /\ marker' = (active + (-1) > 0)
        /\ Adds(perIP, perIP', i, 0)
    BY <1>1, <1>9 DEF EndUpload, Matches, TypeOK, Adds
  <2>4. Matches(conns', total + 0, perIP', "run", active + (-1), marker')
    BY <1>0, <1>1, <2>2, <2>3, MatchesFollows
  <2> QED
    BY <2>1, <2>3, <2>4
<1>10. ASSUME NEW i \in IP, EndUpload(i), Move(i, "saved", "idle")
      PROVE  Goal
  <2>1. /\ conns' \in ConnTable
        /\ conns'[i]["saved"] = conns[i]["saved"] - 1 /\ conns'[i]["idle"] = conns[i]["idle"] + 1
        /\ conns'[i]["checked"] = conns[i]["checked"] /\ conns'[i]["upload"] = conns[i]["upload"]
        /\ \A j \in IP \ {i} : \A r \in ConnState : conns'[j][r] = conns[j][r]
    BY <1>1, <1>10, MoveCounts DEF EndUpload, ConnState
  <2>2. Changes(conns, conns', i, 0, (-1))
    <3>1. /\ conns[i]["idle"] \in Nat /\ conns[i]["checked"] \in Nat
          /\ conns[i]["upload"] \in Nat /\ conns[i]["saved"] \in Nat
      BY <1>1 DEF ConnTable, ConnState
    <3>2. UploadsIn(conns'[i]) = UploadsIn(conns[i]) + (-1) /\ UploadsIn(conns[i]) \in Nat
      BY <2>1, <3>1 DEF UploadsIn
    <3>3. OpenIn(conns'[i]) = OpenIn(conns[i]) + 0
      BY <2>1, <3>1, <3>2 DEF OpenIn
    <3> QED
      BY <2>1, <3>2, <3>3 DEF Changes
  <2>3. /\ total' = total + 0 /\ process' = "run" /\ active' = active + (-1)
        /\ marker' = (active + (-1) > 0)
        /\ Adds(perIP, perIP', i, 0)
    BY <1>1, <1>10 DEF EndUpload, Matches, TypeOK, Adds
  <2>4. Matches(conns', total + 0, perIP', "run", active + (-1), marker')
    BY <1>0, <1>1, <2>2, <2>3, MatchesFollows
  <2> QED
    BY <2>1, <2>3, <2>4
<1>11. CASE ProcessExits
  BY <1>1, <1>11 DEF ProcessExits, Matches
<1>12. ASSUME NEW i \in IP, CloseAgain(i) \/ ForgetAttempts(i)
      PROVE  Goal
  BY <1>2, <1>12 DEF CloseAgain, ReleaseOnce, ForgetAttempts
<1>13. CASE LifeStep \/ ServerReturns \/ Signal \/ CommandEnds \/ Outer
  BY <1>2, <1>13 DEF LifeStep, StartFails, StartServes, StopBegins, StopDiscovery,
     DiscoveryStopped, Drained, StartReturns, ServerReturns, Signal, CommandEnds
<1> HIDE DEF Goal
<1> QED
  BY <1>3, <1>4, <1>5, <1>6, <1>7, <1>8, <1>9, <1>10, <1>11, <1>12, <1>13
  DEF Next, RequestStep, EndUpload

\* Requests that are past the limiter, and failures that it has counted, stay within the
\* budget: who passes has failed less than MaxPINAttempts times, and holds a connection.
LEMMA LimitStep ==
    ASSUME TypeOK, CountersMatch, LimitInv, Next, conns' \in ConnTable, CountersMatch'
    PROVE  LimitInv'
<1> USE DEF connVars, sideVars, lifeVars, Outer
<1>1. /\ conns \in ConnTable /\ perIP \in [IP -> Int] /\ attempts \in [IP -> Nat]
      /\ MaxPerIP \in Nat \ {0} /\ MaxPINAttempts \in Nat \ {0}
      /\ \A i \in IP : \A s \in ConnState : conns[i][s] \in Nat /\ conns'[i][s] \in Nat
  BY ReceiverAssumption DEF TypeOK, ConnTable
<1>2. ASSUME UNCHANGED <<conns, perIP, attempts>>
      PROVE  LimitInv'
  BY <1>2 DEF LimitInv
<1>3. ASSUME NEW i \in IP, Accept(i)
      PROVE  LimitInv'
  <2>1. \A j \in IP : conns'[j]["checked"] = conns[j]["checked"]
    BY <1>1, <1>3 DEF Accept, ConnTable, ConnState
  <2> QED
    BY <1>1, <1>3, <2>1 DEF Accept, Acquire, Count, LimitInv
<1>4. ASSUME NEW i \in IP, CloseConn(i)
      PROVE  LimitInv'
  <2>1. \A j \in IP : conns'[j]["checked"] = conns[j]["checked"]
    BY <1>1, <1>4 DEF CloseConn, ConnTable, ConnState
  <2> QED
    BY <1>1, <1>4, <2>1 DEF CloseConn, Release, LimitInv
<1>5. ASSUME NEW i \in IP, AskLimiter(i)
      PROVE  LimitInv'
  <2>1. \A j \in IP \ {i} : conns'[j]["checked"] = conns[j]["checked"]
    BY <1>1, <1>5, MoveCounts DEF AskLimiter, ConnState
  <2>2. UNCHANGED <<perIP, attempts>> /\ attempts[i] < MaxPINAttempts
    BY <1>1, <1>5 DEF AskLimiter, IsBlocked
  <2>3. CASE i = Loopback
    BY <1>1, <2>1, <2>2, <2>3 DEF LimitInv
  <2>4. CASE i # Loopback
    <3>1. conns'[i]["checked"] <= OpenIn(conns'[i])
      BY <1>1 DEF OpenIn, UploadsIn, ConnState
    <3>2. OpenIn(conns'[i]) = perIP'[i]
      BY <2>4, CountsAt, MatchesIsCountersMatch DEF Matches
    <3>3. conns'[i]["checked"] <= MaxPerIP /\ conns'[i]["checked"] \in Nat
      BY <1>1, <2>2, <2>4, <3>1, <3>2 DEF LimitInv, ConnState
    <3> QED
      BY <1>1, <2>1, <2>2, <3>3 DEF LimitInv
  <2> QED
    BY <2>3, <2>4
<1>6. ASSUME NEW i \in IP, ComparePIN(i)
      PROVE  LimitInv'
  <2>1. /\ conns'[i]["checked"] = conns[i]["checked"] - 1
        /\ \A j \in IP \ {i} : conns'[j]["checked"] = conns[j]["checked"]
    BY <1>1, <1>6, MoveCounts DEF ComparePIN, ConnState
  <2>2. /\ UNCHANGED perIP /\ attempts'[i] \in Nat /\ attempts'[i] <= attempts[i] + 1
        /\ \A j \in IP \ {i} : attempts'[j] = attempts[j]
    BY <1>1, <1>6 DEF ComparePIN
  <2>3. conns[i]["checked"] \in Nat
    BY <1>1 DEF ConnState
  <2> QED
    BY <1>1, <2>1, <2>2, <2>3 DEF LimitInv
<1>7. ASSUME NEW i \in IP, ForgetAttempts(i)
      PROVE  LimitInv'
  BY <1>1, <1>7 DEF ForgetAttempts, LimitInv, ConnState
<1>8. ASSUME NEW i \in IP, BeginUpload(i) \/ LogTransfer(i) \/ EndUpload(i)
      PROVE  LimitInv'
  <2>1. \A j \in IP : conns'[j]["checked"] = conns[j]["checked"]
    BY <1>1, <1>8, MoveCounts DEF BeginUpload, LogTransfer, EndUpload, ConnState
  <2>2. UNCHANGED <<perIP, attempts>>
    BY <1>8 DEF BeginUpload, LogTransfer, EndUpload
  <2> QED
    BY <2>1, <2>2 DEF LimitInv
<1>9. ASSUME NEW i \in IP, CloseAgain(i)
      PROVE  LimitInv'
  BY <1>2, <1>9 DEF CloseAgain, ReleaseOnce
<1>10. CASE LifeStep \/ ServerReturns \/ Signal \/ ProcessExits \/ CommandEnds \/ Outer
  BY <1>2, <1>10 DEF LifeStep, StartFails, StartServes, StopBegins, StopDiscovery,
     DiscoveryStopped, Drained, StartReturns, ServerReturns, Signal, ProcessExits, CommandEnds
<1> QED
  BY <1>3, <1>4, <1>5, <1>6, <1>7, <1>8, <1>9, <1>10 DEF Next, RequestStep

-----------------------------------------------------------------------------
(* Discovery.                                                              *)

\* Steps of the process that do not touch discovery, besides requests.
QuietStep == \/ StartFails \/ ServerReturns \/ DiscoveryStopped \/ Drained \/ StartReturns
             \/ ProcessExits

\* Requests and discovery share no state.
LEMMA QuietSteps ==
    ASSUME RequestStep \/ QuietStep
    PROVE  UNCHANGED <<discVars, rebindVars, scanVars>> /\ (start' = "init" => start = "init")
BY DEF RequestStep, Accept, CloseConn, CloseAgain, AskLimiter, ComparePIN, ForgetAttempts,
   BeginUpload, LogTransfer, EndUpload, CommandEnds, QuietStep, StartFails, ServerReturns,
   DiscoveryStopped, Drained, StartReturns, ProcessExits, lifeVars

\* Devices and Discoverers are finitely many, and so are the answers under way.
LEMMA FiniteResponses ==
    ASSUME DiscoveryTypeOK, NEW d \in Disc
    PROVE  IsFiniteSet({a \in answering : a[1] = d})
<1>1. IsFiniteSet(Disc \X Device)
  BY DiscoveryAssumption, FS_Product
<1>2. {a \in answering : a[1] = d} \in SUBSET (Disc \X Device)
  BY DEF DiscoveryTypeOK
<1> QED
  BY <1>1, <1>2, FS_Subset

\* No Discoverer answers more announcements at a time than it may.
LEMMA ResponsesStep ==
    ASSUME DiscoveryTypeOK, Next
    PROVE  ResponsesBounded'
<1> USE DiscoveryAssumption DEF DiscoveryTypeOK, discVars, rebindVars, scanVars
<1>1. ASSUME UNCHANGED <<answering>>
      PROVE  ResponsesBounded'
  BY <1>1 DEF ResponsesBounded
<1>2. CASE RequestStep \/ QuietStep
  BY <1>1, <1>2, QuietSteps DEF discVars, rebindVars, scanVars
<1>3. CASE \/ StartServes \/ StopBegins \/ StopDiscovery \/ Signal \/ RebindLook
           \/ RebindCreateFails \/ RebindInstall \/ ListenReturns \/ ClearDiscoverer
           \/ RebindClose \/ RebindRetry \/ ShutdownHook \/ RebindCreate \/ ReceiveFails
           \/ DatagramIgnored \/ ScanBegins \/ ScanReads \/ LegacyStarts \/ LegacyEnds
           \/ CollectEnds \/ ScanGathers \/ ScanWakes \/ ScanTimesOut
           \/ ScanFails \/ ScanIsReady
  BY <1>1, <1>3 DEF StartServes, StopBegins, StopDiscovery, Signal, RebindLook,
     RebindCreateFails, RebindInstall, ListenReturns, ClearDiscoverer, RebindClose,
     RebindRetry, ShutdownHook, RebindCreate, ReceiveFails, DatagramIgnored, ScanBegins,
     ScanReads, LegacyStarts, LegacyEnds, CollectEnds, ScanGathers, ScanWakes, ScanTimesOut,
     ScanFails, ScanIsReady, CreateDiscoverer, NewDiscoverer, ShareDiscoveries, InstallDiscoverer,
     Shutdown
<1>4. ASSUME NEW p \in Device, RegisterDevice(p) \/ ProbeConfirmed(p)
      PROVE  ResponsesBounded'
  BY <1>1, <1>4 DEF RegisterDevice, ProbeConfirmed, PutDiscovered
<1>5. ASSUME NEW d \in Disc, NEW p \in Device, Announcement(d, p)
      PROVE  ResponsesBounded'
  <2>1. ASSUME NEW e \in Disc
        PROVE  Cardinality({a \in answering' : a[1] = e}) <= MaxResponses
    <3> DEFINE A == {a \in answering : a[1] = e}
    <3> DEFINE B == {a \in answering' : a[1] = e}
    <3>1. IsFiniteSet(A) /\ Cardinality(A) <= MaxResponses
      BY FiniteResponses DEF ResponsesBounded
    <3>2. CASE e # d
      <4>1. B = A
        BY <1>5, <3>2 DEF Announcement
      <4> QED
        BY <3>1, <4>1
    <3>3. CASE e = d
      <4>1. B = A \cup {<<d, p>>} /\ Cardinality(A) < MaxResponses
        BY <1>5, <3>3 DEF Announcement, MayRespond
      <4> HIDE DEF A, B
      <4>2. Cardinality(A) \in Nat
        BY <3>1, FS_CardinalityType
      <4>3. Cardinality(B) = IF <<d, p>> \in A THEN Cardinality(A) ELSE Cardinality(A) + 1
        BY <3>1, <4>1, FS_AddElement
      <4>4. Cardinality(B) <= MaxResponses
        BY <4>1, <4>2, <4>3
      <4> QED
        BY <4>4 DEF B
    <3> QED
      BY <3>2, <3>3
  <2> QED
    BY <2>1 DEF ResponsesBounded
<1>6. ASSUME NEW d \in Disc, NEW p \in Device, ResponseConfirmed(d, p)
      PROVE  ResponsesBounded'
  <2>1. ASSUME NEW e \in Disc
        PROVE  Cardinality({a \in answering' : a[1] = e}) <= MaxResponses
    <3> DEFINE A == {a \in answering : a[1] = e}
    <3> DEFINE B == {a \in answering' : a[1] = e}
    <3>1. IsFiniteSet(A) /\ Cardinality(A) <= MaxResponses
      BY FiniteResponses DEF ResponsesBounded
    <3>2. B \in SUBSET A
      BY <1>6 DEF ResponseConfirmed
    <3> HIDE DEF A, B
    <3>3. Cardinality(B) <= Cardinality(A) /\ Cardinality(A) \in Nat /\ Cardinality(B) \in Nat
      BY <3>1, <3>2, FS_Subset, FS_CardinalityType
    <3>4. Cardinality(B) <= MaxResponses
      BY <3>1, <3>3
    <3> QED
      BY <3>4 DEF B
  <2> QED
    BY <2>1 DEF ResponsesBounded
<1>7. ASSUME NEW d \in Disc, NEW p \in Device, ResponseFails(d, p)
      PROVE  ResponsesBounded'
  <2>1. ASSUME NEW e \in Disc
        PROVE  Cardinality({a \in answering' : a[1] = e}) <= MaxResponses
    <3> DEFINE A == {a \in answering : a[1] = e}
    <3> DEFINE B == {a \in answering' : a[1] = e}
    <3>1. IsFiniteSet(A) /\ Cardinality(A) <= MaxResponses
      BY FiniteResponses DEF ResponsesBounded
    <3>2. B \in SUBSET A
      BY <1>7 DEF ResponseFails
    <3> HIDE DEF A, B
    <3>3. Cardinality(B) <= Cardinality(A) /\ Cardinality(A) \in Nat /\ Cardinality(B) \in Nat
      BY <3>1, <3>2, FS_Subset, FS_CardinalityType
    <3>4. Cardinality(B) <= MaxResponses
      BY <3>1, <3>3
    <3> QED
      BY <3>4 DEF B
  <2> QED
    BY <2>1 DEF ResponsesBounded
<1> QED
  BY <1>2, <1>3, <1>4, <1>5, <1>6, <1>7
  DEF Next, LifeStep, RebindStep, DiscoveryStep, ScanStep, QuietStep

\* The first Discoverer that Start binds, and a later one, have not been bound before.
LEMMA NextIsUnbound ==
    ASSUME DiscoveryTypeOK, Unbound # {}
    PROVE  NextDisc \in Disc /\ sock[NextDisc] = "none"
BY DEF NextDisc, Unbound

\* There is one when Start begins.
LEMMA UnboundAtStart ==
    ASSUME DiscoveryTypeOK, LifeInv, TableInv, start = "init"
    PROVE  Unbound # {}
BY DiscoveryAssumption DEF LifeInv, TableInv, Unbound

\* Discovery keeps its types.
LEMMA DiscoveryTypeStep ==
    ASSUME DiscoveryTypeOK, LifeInv, TableInv, ScanInv, Next
    PROVE  DiscoveryTypeOK'
<1> USE DiscoveryAssumption DEF lifeVars, connVars, sideVars, Outer, discVars, rebindVars, scanVars
<1>0. ResponsesBounded'
  BY ResponsesStep
<1>1. ASSUME UNCHANGED <<discVars, rebindVars, scanVars>>
      PROVE  DiscoveryTypeOK'
  BY <1>0, <1>1 DEF DiscoveryTypeOK
<1>2. CASE RequestStep \/ QuietStep
  BY <1>1, <1>2, QuietSteps DEF discVars, rebindVars, scanVars
<1>3. CASE StartServes
  <2>1. NextDisc \in Disc /\ previous = None
    BY <1>3, NextIsUnbound, UnboundAtStart DEF StartServes, LifeInv
  <2>2. CASE CreateDiscoverer(NextDisc) /\ InstallDiscoverer(NextDisc)
    BY <1>3, <2>1, <2>2, <1>0 DEF StartServes, CreateDiscoverer, NewDiscoverer, ShareDiscoveries,
         InstallDiscoverer, DiscoveryTypeOK
  <2>3. CASE UNCHANGED <<sock, shares, previous, current, woken>>
    BY <1>3, <2>3, <1>0 DEF StartServes, DiscoveryTypeOK
  <2> QED
    BY <1>3, <2>2, <2>3 DEF StartServes
<1>4. CASE StopBegins
  BY <1>4, <1>0 DEF StopBegins, DiscoveryTypeOK
<1>5. CASE StopDiscovery
  BY <1>5, <1>0 DEF StopDiscovery, Shutdown, DiscoveryTypeOK
<1>6. CASE Signal
  BY <1>6, <1>0 DEF Signal, DiscoveryTypeOK
<1>7. CASE RebindLook
  BY <1>7, <1>0 DEF RebindLook, DiscoveryTypeOK, LifeInv
<1>8. CASE RebindCreateFails
  BY <1>8, <1>0 DEF RebindCreateFails, DiscoveryTypeOK
<1>9. CASE RebindInstall
  BY <1>9, <1>0 DEF RebindInstall, InstallDiscoverer, DiscoveryTypeOK, LifeInv
<1>10. CASE ListenReturns
  BY <1>10, <1>0 DEF ListenReturns, DiscoveryTypeOK
<1>11. CASE ClearDiscoverer
  BY <1>11, <1>0 DEF ClearDiscoverer, DiscoveryTypeOK, LifeInv
<1>12. CASE RebindClose
  BY <1>12, <1>0 DEF RebindClose, Shutdown, DiscoveryTypeOK, LifeInv
<1>13. CASE RebindRetry
  BY <1>13, <1>0 DEF RebindRetry, DiscoveryTypeOK
<1>14. CASE ShutdownHook
  BY <1>14, <1>0 DEF ShutdownHook, Shutdown, DiscoveryTypeOK, LifeInv
<1>15. CASE RebindCreate
  <2>1. NextDisc \in Disc
    BY <1>15, NextIsUnbound DEF RebindCreate
  <2> QED
    BY <1>15, <2>1, <1>0 DEF RebindCreate, CreateDiscoverer, NewDiscoverer, ShareDiscoveries,
         DiscoveryTypeOK
<1>16. CASE ReceiveFails
  BY <1>16, <1>0 DEF ReceiveFails, DiscoveryTypeOK
<1>17. CASE DatagramIgnored
  BY <1>17, <1>0 DEF DatagramIgnored, DiscoveryTypeOK
<1>18. ASSUME NEW d \in Disc, NEW p \in Device, Announcement(d, p)
      PROVE  DiscoveryTypeOK'
  BY <1>18, <1>0 DEF Announcement, DiscoveryTypeOK
<1>19. ASSUME NEW d \in Disc, NEW p \in Device, ResponseConfirmed(d, p)
      PROVE  DiscoveryTypeOK'
  BY <1>19, <1>0 DEF ResponseConfirmed, PutDiscovered, DiscoveryTypeOK
<1>20. ASSUME NEW d \in Disc, NEW p \in Device, ResponseFails(d, p)
      PROVE  DiscoveryTypeOK'
  BY <1>20, <1>0 DEF ResponseFails, DiscoveryTypeOK
<1>21. ASSUME NEW p \in Device, RegisterDevice(p)
      PROVE  DiscoveryTypeOK'
  BY <1>21, <1>0 DEF RegisterDevice, PutDiscovered, DiscoveryTypeOK
<1>22. CASE ScanBegins
  BY <1>22, <1>0 DEF ScanBegins, ScanRuns, DiscoveryTypeOK
<1>23. CASE ScanReads
  BY <1>23, <1>0 DEF ScanReads, ScanRuns, DiscoveryTypeOK
<1>24. CASE LegacyStarts
  BY <1>24, <1>0 DEF LegacyStarts, DiscoveryTypeOK
<1>25. CASE LegacyEnds
  BY <1>25, <1>0 DEF LegacyEnds, DiscoveryTypeOK
<1>26. CASE CollectEnds
  BY <1>26, <1>0 DEF CollectEnds, ScanRuns, DiscoveryTypeOK
<1>27. CASE ScanGathers
  <2>1. seen \in Disc /\ result' \subseteq table[shares[seen]]
    BY <1>27 DEF ScanGathers, ScanInv, DiscoveredSince, DiscoveryTypeOK
  <2>2. result' \subseteq Device
    BY <2>1 DEF DiscoveryTypeOK
  <2> QED
    BY <1>27, <2>2, <1>0 DEF ScanGathers, ScanReturns, ScanRuns, DiscoveryTypeOK
<1>28. CASE ScanWakes
  BY <1>28, <1>0 DEF ScanWakes, ScanRuns, DiscoveryTypeOK
<1>29. CASE ScanTimesOut \/ ScanFails
  BY <1>29, <1>0 DEF ScanTimesOut, ScanFails, ScanReturns, DiscoveryTypeOK
<1>30. CASE ScanIsReady
  BY <1>30, <1>0 DEF ScanIsReady, ScanRuns, DiscoveryTypeOK
<1>31. ASSUME NEW p \in Device, ProbeConfirmed(p)
      PROVE  DiscoveryTypeOK'
  BY <1>31, <1>0 DEF ProbeConfirmed, PutDiscovered, DiscoveryTypeOK, ScanInv, LifeInv
<1> QED
  BY <1>2, <1>3, <1>4, <1>5, <1>6, <1>7, <1>8, <1>9, <1>10, <1>11, <1>12, <1>13, <1>14,
     <1>15, <1>16, <1>17, <1>18, <1>19, <1>20, <1>21, <1>22, <1>23, <1>24, <1>25, <1>26,
     <1>27, <1>28, <1>29, <1>30, <1>31
  DEF Next, LifeStep, RebindStep, DiscoveryStep, ScanStep, QuietStep

\* Start comes first, and the loop listens with the Discoverer it has.
LEMMA LifeKept ==
    ASSUME DiscoveryTypeOK, LifeInv, BoundInv, TableInv, ScanInv, WakeInv, Next
    PROVE  LifeInv'
<1> USE DiscoveryAssumption DEF lifeVars, connVars, sideVars, Outer, discVars, rebindVars, scanVars
<1>0. start' = "init" => start = "init"
  <2>1. CASE RequestStep \/ QuietStep
    BY <2>1, QuietSteps
  <2>2. CASE StartServes \/ StopBegins \/ StopDiscovery \/ Signal \/ Outer
    BY <2>2 DEF StartServes, StopBegins, StopDiscovery, Signal
  <2> QED
    BY <2>1, <2>2 DEF Next, LifeStep, QuietStep
<1>1. ASSUME UNCHANGED <<rebinder, previous, mine>>
      PROVE  LifeInv'
  BY <1>0, <1>1 DEF LifeInv
<1>2. CASE RequestStep \/ QuietStep
  BY <1>1, <1>2, QuietSteps DEF discVars, rebindVars, scanVars
<1>3. CASE \/ StopBegins \/ StopDiscovery \/ Signal \/ ShutdownHook \/ ReceiveFails
           \/ DatagramIgnored \/ ScanBegins \/ ScanReads \/ LegacyStarts \/ LegacyEnds
           \/ CollectEnds \/ ScanGathers \/ ScanWakes \/ ScanTimesOut \/ ScanFails
           \/ ScanIsReady
  BY <1>1, <1>3 DEF StopBegins, StopDiscovery, Signal, ShutdownHook, ReceiveFails,
     DatagramIgnored, ScanBegins, ScanReads, LegacyStarts, LegacyEnds, CollectEnds,
     ScanGathers, ScanWakes, ScanTimesOut, ScanFails, ScanIsReady, Shutdown
<1>4. ASSUME NEW d \in Disc, NEW p \in Device,
             \/ Announcement(d, p)
             \/ ResponseConfirmed(d, p) \/ ResponseFails(d, p)
      PROVE  LifeInv'
  BY <1>1, <1>4 DEF Announcement, ResponseConfirmed, ResponseFails, PutDiscovered
<1>5. ASSUME NEW p \in Device, RegisterDevice(p) \/ ProbeConfirmed(p)
      PROVE  LifeInv'
  BY <1>1, <1>5 DEF RegisterDevice, ProbeConfirmed, PutDiscovered
<1>6. CASE StartServes
  <2>1. NextDisc \in Disc /\ sock[NextDisc] = "none" /\ previous = None
    BY <1>0, <1>6, NextIsUnbound, UnboundAtStart DEF StartServes, LifeInv
  <2>2. CASE CreateDiscoverer(NextDisc) /\ InstallDiscoverer(NextDisc)
    BY <1>0, <1>6, <2>1, <2>2 DEF StartServes, CreateDiscoverer, NewDiscoverer, ShareDiscoveries,
         InstallDiscoverer, LifeInv, DiscoveryTypeOK
  <2>3. CASE UNCHANGED <<sock, shares, previous, current, woken>>
    BY <1>0, <1>6, <2>3 DEF StartServes, LifeInv, DiscoveryTypeOK
  <2> QED
    BY <1>0, <1>6, <2>2, <2>3 DEF StartServes
<1>7. CASE RebindLook
  BY <1>0, <1>7 DEF RebindLook, LifeInv, DiscoveryTypeOK
<1>8. CASE RebindCreateFails
  BY <1>0, <1>8 DEF RebindCreateFails, LifeInv, DiscoveryTypeOK
<1>9. CASE RebindInstall
  BY <1>0, <1>9 DEF RebindInstall, InstallDiscoverer, LifeInv, DiscoveryTypeOK
<1>10. CASE ListenReturns
  BY <1>0, <1>10 DEF ListenReturns, LifeInv, DiscoveryTypeOK
<1>11. CASE ClearDiscoverer
  BY <1>0, <1>11 DEF ClearDiscoverer, LifeInv, DiscoveryTypeOK
<1>12. CASE RebindClose
  BY <1>0, <1>12 DEF RebindClose, Shutdown, LifeInv, DiscoveryTypeOK
<1>13. CASE RebindRetry
  BY <1>0, <1>13 DEF RebindRetry, LifeInv, DiscoveryTypeOK
<1>14. CASE RebindCreate
  <2>1. NextDisc \in Disc /\ sock[NextDisc] = "none"
    BY <1>0, <1>14, NextIsUnbound DEF RebindCreate
  <2> QED
    BY <1>0, <1>14, <2>1 DEF RebindCreate, CreateDiscoverer, NewDiscoverer, ShareDiscoveries,
         LifeInv, DiscoveryTypeOK
<1> QED
  BY <1>0, <1>2, <1>3, <1>4, <1>5, <1>6, <1>7, <1>8, <1>9, <1>10, <1>11, <1>12, <1>13, <1>14
  DEF Next, LifeStep, RebindStep, DiscoveryStep, ScanStep, QuietStep

\* Nobody gets hold of a Discoverer that is not bound, and none is bound twice.
LEMMA BoundKept ==
    ASSUME DiscoveryTypeOK, LifeInv, BoundInv, TableInv, ScanInv, WakeInv, Next
    PROVE  BoundInv'
<1> USE DiscoveryAssumption DEF lifeVars, connVars, sideVars, Outer, discVars, rebindVars, scanVars
<1>1. ASSUME UNCHANGED <<current, previous, mine, seen, sock, answering>>
      PROVE  BoundInv'
  BY <1>1 DEF BoundInv
<1>2. CASE RequestStep \/ QuietStep
  BY <1>1, <1>2, QuietSteps DEF discVars, rebindVars, scanVars
<1>3. CASE \/ StopBegins \/ Signal \/ RebindCreateFails \/ ListenReturns \/ RebindRetry
           \/ ReceiveFails \/ DatagramIgnored \/ ScanBegins \/ LegacyStarts \/ LegacyEnds
           \/ CollectEnds \/ ScanWakes \/ ScanIsReady
  BY <1>1, <1>3 DEF StopBegins, Signal, RebindCreateFails, ListenReturns, RebindRetry,
     ReceiveFails, DatagramIgnored, ScanBegins, LegacyStarts, LegacyEnds, CollectEnds,
     ScanWakes, ScanIsReady
<1>4. ASSUME NEW p \in Device, RegisterDevice(p) \/ ProbeConfirmed(p)
      PROVE  BoundInv'
  BY <1>1, <1>4 DEF RegisterDevice, ProbeConfirmed, PutDiscovered
<1>5. CASE StartServes
  <2>1. NextDisc \in Disc /\ sock[NextDisc] = "none" /\ previous = None
    BY <1>5, NextIsUnbound, UnboundAtStart DEF StartServes, LifeInv
  <2>2. CASE CreateDiscoverer(NextDisc) /\ InstallDiscoverer(NextDisc)
    BY <1>5, <2>1, <2>2 DEF StartServes, CreateDiscoverer, NewDiscoverer, ShareDiscoveries,
         InstallDiscoverer, BoundInv, DiscoveryTypeOK, LifeInv
  <2>3. CASE UNCHANGED <<sock, shares, previous, current, woken>>
    BY <1>5, <2>3 DEF StartServes, BoundInv, DiscoveryTypeOK, LifeInv
  <2> QED
    BY <1>5, <2>2, <2>3 DEF StartServes
<1>6. CASE StopDiscovery
  BY <1>6 DEF StopDiscovery, Shutdown, BoundInv, DiscoveryTypeOK, LifeInv
<1>7. CASE RebindLook
  BY <1>7 DEF RebindLook, BoundInv, DiscoveryTypeOK, LifeInv
<1>8. CASE RebindInstall
  BY <1>8 DEF RebindInstall, InstallDiscoverer, BoundInv, DiscoveryTypeOK, LifeInv
<1>9. CASE ClearDiscoverer
  BY <1>9 DEF ClearDiscoverer, BoundInv, DiscoveryTypeOK, LifeInv
<1>10. CASE RebindClose
  BY <1>10 DEF RebindClose, Shutdown, BoundInv, DiscoveryTypeOK, LifeInv
<1>11. CASE ShutdownHook
  BY <1>11 DEF ShutdownHook, Shutdown, BoundInv, DiscoveryTypeOK, LifeInv
<1>12. CASE RebindCreate
  <2>1. NextDisc \in Disc /\ sock[NextDisc] = "none"
    BY <1>12, NextIsUnbound DEF RebindCreate
  <2> QED
    BY <1>12, <2>1 DEF RebindCreate, CreateDiscoverer, NewDiscoverer, ShareDiscoveries,
         BoundInv, DiscoveryTypeOK, LifeInv
<1>13. ASSUME NEW d \in Disc, NEW p \in Device, Announcement(d, p)
      PROVE  BoundInv'
  BY <1>13 DEF Announcement, BoundInv, DiscoveryTypeOK, LifeInv
<1>14. ASSUME NEW d \in Disc, NEW p \in Device, ResponseConfirmed(d, p)
      PROVE  BoundInv'
  BY <1>14 DEF ResponseConfirmed, PutDiscovered, BoundInv, DiscoveryTypeOK, LifeInv
<1>15. ASSUME NEW d \in Disc, NEW p \in Device, ResponseFails(d, p)
      PROVE  BoundInv'
  BY <1>15 DEF ResponseFails, BoundInv, DiscoveryTypeOK, LifeInv
<1>16. CASE ScanReads
  BY <1>16 DEF ScanReads, BoundInv, DiscoveryTypeOK, LifeInv
<1>17. CASE ScanGathers \/ ScanTimesOut \/ ScanFails
  BY <1>17 DEF ScanGathers, ScanTimesOut, ScanFails, ScanReturns, BoundInv, DiscoveryTypeOK
<1> QED
  BY <1>2, <1>3, <1>4, <1>5, <1>6, <1>7, <1>8, <1>9, <1>10, <1>11, <1>12, <1>13, <1>14,
     <1>15, <1>16, <1>17
  DEF Next, LifeStep, RebindStep, DiscoveryStep, ScanStep, QuietStep

\* A rebound Discoverer takes over the table, and every confirmation goes into it.
LEMMA TableKept ==
    ASSUME DiscoveryTypeOK, LifeInv, BoundInv, TableInv, ScanInv, WakeInv, Next
    PROVE  TableInv'
<1> USE DiscoveryAssumption DEF lifeVars, connVars, sideVars, Outer, discVars, rebindVars, scanVars
<1>1. ASSUME UNCHANGED <<previous, confirmed, sock, table, shares>>
      PROVE  TableInv'
  BY <1>1 DEF TableInv
<1>2. CASE RequestStep \/ QuietStep
  BY <1>1, <1>2, QuietSteps DEF discVars, rebindVars, scanVars
<1>3. CASE \/ StopBegins \/ Signal \/ RebindLook \/ RebindCreateFails \/ RebindInstall
           \/ ListenReturns \/ ClearDiscoverer \/ RebindRetry \/ ReceiveFails
           \/ DatagramIgnored \/ ScanReads \/ LegacyStarts \/ LegacyEnds \/ CollectEnds
           \/ ScanGathers \/ ScanWakes \/ ScanTimesOut \/ ScanIsReady
  BY <1>1, <1>3 DEF StopBegins, Signal, RebindLook, RebindCreateFails, RebindInstall,
     ListenReturns, ClearDiscoverer, RebindRetry, ReceiveFails, DatagramIgnored, ScanReads,
     LegacyStarts, LegacyEnds, CollectEnds, ScanGathers, ScanWakes, ScanTimesOut,
     ScanIsReady, InstallDiscoverer
<1>4. ASSUME NEW d \in Disc, NEW p \in Device,
             \/ Announcement(d, p)
             \/ ResponseFails(d, p)
      PROVE  TableInv'
  BY <1>1, <1>4 DEF Announcement, ResponseFails
<1>5. CASE StartServes
  <2>1. NextDisc \in Disc /\ sock[NextDisc] = "none" /\ previous = None
    BY <1>5, NextIsUnbound, UnboundAtStart DEF StartServes, LifeInv
  <2>2. CASE CreateDiscoverer(NextDisc) /\ InstallDiscoverer(NextDisc)
    BY <1>5, <2>1, <2>2 DEF StartServes, CreateDiscoverer, NewDiscoverer, ShareDiscoveries,
         InstallDiscoverer, TableInv, DiscoveryTypeOK, LifeInv, BoundInv, ScanInv
  <2>3. CASE UNCHANGED <<sock, shares, previous, current, woken>>
    BY <1>5, <2>3 DEF StartServes, TableInv, DiscoveryTypeOK, LifeInv, BoundInv, ScanInv
  <2> QED
    BY <1>5, <2>2, <2>3 DEF StartServes
<1>6. CASE StopDiscovery
  BY <1>6 DEF StopDiscovery, Shutdown, TableInv, DiscoveryTypeOK, LifeInv, BoundInv, ScanInv
<1>7. CASE RebindClose
  BY <1>7 DEF RebindClose, Shutdown, TableInv, DiscoveryTypeOK, LifeInv, BoundInv, ScanInv
<1>8. CASE ShutdownHook
  BY <1>8 DEF ShutdownHook, Shutdown, TableInv, DiscoveryTypeOK, LifeInv, BoundInv, ScanInv
<1>9. CASE RebindCreate
  <2>1. NextDisc \in Disc /\ sock[NextDisc] = "none"
    BY <1>9, NextIsUnbound DEF RebindCreate
  <2> QED
    BY <1>9, <2>1 DEF RebindCreate, CreateDiscoverer, NewDiscoverer, ShareDiscoveries,
         TableInv, DiscoveryTypeOK, LifeInv, BoundInv, ScanInv
<1>10. ASSUME NEW d \in Disc, NEW p \in Device, ResponseConfirmed(d, p)
      PROVE  TableInv'
  BY <1>10 DEF ResponseConfirmed, PutDiscovered, TableInv, DiscoveryTypeOK, LifeInv,
     BoundInv, ScanInv
<1>11. ASSUME NEW p \in Device, RegisterDevice(p)
      PROVE  TableInv'
  BY <1>11 DEF RegisterDevice, PutDiscovered, TableInv, DiscoveryTypeOK, LifeInv, BoundInv,
     ScanInv
<1>12. CASE ScanBegins
  BY <1>12 DEF ScanBegins, TableInv, DiscoveryTypeOK, LifeInv, BoundInv, ScanInv
<1>13. ASSUME NEW p \in Device, ProbeConfirmed(p)
      PROVE  TableInv'
  BY <1>13 DEF ProbeConfirmed, PutDiscovered, TableInv, DiscoveryTypeOK, LifeInv, BoundInv,
     ScanInv
<1>14. CASE ScanFails
  BY <1>14 DEF ScanFails, TableInv, DiscoveryTypeOK
<1> QED
  BY <1>2, <1>3, <1>4, <1>5, <1>6, <1>7, <1>8, <1>9, <1>10, <1>11, <1>12, <1>13, <1>14
  DEF Next, LifeStep, RebindStep, DiscoveryStep, ScanStep, QuietStep

\* Probes run while a scan collects.
LEMMA ScanKept ==
    ASSUME DiscoveryTypeOK, LifeInv, BoundInv, TableInv, ScanInv, WakeInv, Next
    PROVE  ScanInv'
<1> USE DiscoveryAssumption DEF lifeVars, connVars, sideVars, Outer, discVars, rebindVars, scanVars
<1>1. ASSUME UNCHANGED <<scan, seen, legacy>>
      PROVE  ScanInv'
  BY <1>1 DEF ScanInv
<1>2. CASE RequestStep \/ QuietStep
  BY <1>1, <1>2, QuietSteps DEF discVars, rebindVars, scanVars
<1>3. CASE \/ StartServes \/ StopBegins \/ StopDiscovery \/ Signal \/ RebindLook
           \/ RebindCreateFails \/ RebindInstall \/ ListenReturns \/ ClearDiscoverer
           \/ RebindClose \/ RebindRetry \/ ShutdownHook \/ RebindCreate \/ ReceiveFails
           \/ DatagramIgnored
  BY <1>1, <1>3 DEF StartServes, StopBegins, StopDiscovery, Signal, RebindLook,
     RebindCreateFails, RebindInstall, ListenReturns, ClearDiscoverer, RebindClose,
     RebindRetry, ShutdownHook, RebindCreate, ReceiveFails, DatagramIgnored,
     CreateDiscoverer, NewDiscoverer, ShareDiscoveries, InstallDiscoverer, Shutdown
<1>4. ASSUME NEW d \in Disc, NEW p \in Device,
             \/ Announcement(d, p)
             \/ ResponseConfirmed(d, p) \/ ResponseFails(d, p)
      PROVE  ScanInv'
  BY <1>1, <1>4 DEF Announcement, ResponseConfirmed, ResponseFails, PutDiscovered
<1>5. ASSUME NEW p \in Device, RegisterDevice(p) \/ ProbeConfirmed(p)
      PROVE  ScanInv'
  BY <1>1, <1>5 DEF RegisterDevice, ProbeConfirmed, PutDiscovered
<1>6. CASE ScanBegins
  BY <1>6 DEF ScanBegins, ScanRuns, ScanInv, DiscoveryTypeOK
<1>7. CASE ScanReads
  BY <1>7 DEF ScanReads, ScanInv, DiscoveryTypeOK
<1>8. CASE LegacyStarts
  BY <1>8 DEF LegacyStarts, ScanInv, DiscoveryTypeOK
<1>9. CASE LegacyEnds
  BY <1>9 DEF LegacyEnds, ScanInv, DiscoveryTypeOK
<1>10. CASE CollectEnds
  BY <1>10 DEF CollectEnds, ScanInv, DiscoveryTypeOK
<1>11. CASE ScanGathers
  BY <1>11 DEF ScanGathers, ScanReturns, ScanInv, DiscoveryTypeOK
<1>12. CASE ScanWakes
  BY <1>12 DEF ScanWakes, ScanInv, DiscoveryTypeOK
<1>13. CASE ScanTimesOut \/ ScanFails
  BY <1>13 DEF ScanTimesOut, ScanFails, ScanReturns, ScanInv, DiscoveryTypeOK
<1>14. CASE ScanIsReady
  BY <1>14 DEF ScanIsReady, ScanInv, DiscoveryTypeOK
<1> QED
  BY <1>2, <1>3, <1>4, <1>5, <1>6, <1>7, <1>8, <1>9, <1>10, <1>11, <1>12, <1>13, <1>14
  DEF Next, LifeStep, RebindStep, DiscoveryStep, ScanStep, QuietStep

\* Whoever changes the current Discoverer wakes the scan.
LEMMA WakeKept ==
    ASSUME DiscoveryTypeOK, LifeInv, BoundInv, TableInv, ScanInv, WakeInv, Next
    PROVE  WakeInv'
<1> USE DiscoveryAssumption DEF lifeVars, connVars, sideVars, Outer, discVars, rebindVars, scanVars
<1>1. ASSUME UNCHANGED <<scan, woken, current, seen>>
      PROVE  WakeInv'
  BY <1>1 DEF WakeInv
<1>2. CASE RequestStep \/ QuietStep
  BY <1>1, <1>2, QuietSteps DEF discVars, rebindVars, scanVars
<1>3. CASE \/ StopBegins \/ StopDiscovery \/ Signal \/ RebindLook \/ RebindCreateFails
           \/ ListenReturns \/ RebindClose \/ RebindRetry \/ ShutdownHook \/ RebindCreate
           \/ ReceiveFails \/ DatagramIgnored \/ LegacyStarts \/ LegacyEnds
  BY <1>1, <1>3 DEF StopBegins, StopDiscovery, Signal, RebindLook, RebindCreateFails,
     ListenReturns, RebindClose, RebindRetry, ShutdownHook, RebindCreate, ReceiveFails,
     DatagramIgnored, LegacyStarts, LegacyEnds, Shutdown, CreateDiscoverer, NewDiscoverer,
     ShareDiscoveries
<1>4. ASSUME NEW d \in Disc, NEW p \in Device,
             \/ Announcement(d, p)
             \/ ResponseConfirmed(d, p) \/ ResponseFails(d, p)
      PROVE  WakeInv'
  BY <1>1, <1>4 DEF Announcement, ResponseConfirmed, ResponseFails, PutDiscovered
<1>5. ASSUME NEW p \in Device, RegisterDevice(p) \/ ProbeConfirmed(p)
      PROVE  WakeInv'
  BY <1>1, <1>5 DEF RegisterDevice, ProbeConfirmed, PutDiscovered
<1>6. CASE StartServes
  <2>1. NextDisc \in Disc /\ sock[NextDisc] = "none" /\ previous = None
    BY <1>6, NextIsUnbound, UnboundAtStart DEF StartServes, LifeInv
  <2>2. CASE CreateDiscoverer(NextDisc) /\ InstallDiscoverer(NextDisc)
    BY <1>6, <2>1, <2>2 DEF StartServes, CreateDiscoverer, NewDiscoverer, ShareDiscoveries,
         InstallDiscoverer, WakeInv, DiscoveryTypeOK
  <2>3. CASE UNCHANGED <<sock, shares, previous, current, woken>>
    BY <1>6, <2>3 DEF StartServes, WakeInv, DiscoveryTypeOK
  <2> QED
    BY <1>6, <2>2, <2>3 DEF StartServes
<1>7. CASE RebindInstall
  BY <1>7 DEF RebindInstall, InstallDiscoverer, WakeInv, DiscoveryTypeOK
<1>8. CASE ClearDiscoverer
  BY <1>8 DEF ClearDiscoverer, WakeInv, DiscoveryTypeOK
<1>9. CASE ScanReads
  BY <1>9 DEF ScanReads, WakeInv, DiscoveryTypeOK
<1>10. CASE \/ ScanBegins \/ CollectEnds \/ ScanGathers \/ ScanWakes \/ ScanTimesOut \/ ScanFails
            \/ ScanIsReady
  BY <1>10 DEF ScanBegins, CollectEnds, ScanGathers, ScanWakes, ScanTimesOut, ScanFails,
     ScanIsReady, ScanReturns, WakeInv
<1> QED
  BY <1>2, <1>3, <1>4, <1>5, <1>6, <1>7, <1>8, <1>9, <1>10
  DEF Next, LifeStep, RebindStep, DiscoveryStep, ScanStep, QuietStep

\* What a scan gathers has the host of every device in its table, and so of every device
\* confirmed; later confirmations do not count for a scan that has returned.
LEMMA ResultKept ==
    ASSUME DiscoveryTypeOK, LifeInv, BoundInv, TableInv, ScanInv, ResultInv, Next
    PROVE  ResultInv'
<1> USE DiscoveryAssumption DEF lifeVars, connVars, sideVars, Outer, discVars, rebindVars, scanVars
<1>1. ASSUME UNCHANGED <<result, gathered>>,
             scan' = "reported" => scan = "reported" /\ UNCHANGED confirmed
      PROVE  ResultInv'
  BY <1>1 DEF ResultInv, Hosts
<1>2. CASE RequestStep \/ QuietStep
  BY <1>1, <1>2, QuietSteps DEF discVars, rebindVars, scanVars
<1>3. CASE \/ StartServes \/ StopBegins \/ StopDiscovery \/ Signal \/ RebindLook
           \/ RebindCreateFails \/ RebindInstall \/ ListenReturns \/ ClearDiscoverer
           \/ RebindClose \/ RebindRetry \/ ShutdownHook \/ RebindCreate \/ ReceiveFails
           \/ DatagramIgnored \/ ScanReads \/ LegacyStarts \/ LegacyEnds \/ CollectEnds
           \/ ScanWakes \/ ScanTimesOut \/ ScanIsReady
  BY <1>1, <1>3 DEF StartServes, StopBegins, StopDiscovery, Signal, RebindLook,
     RebindCreateFails, RebindInstall, ListenReturns, ClearDiscoverer, RebindClose,
     RebindRetry, ShutdownHook, RebindCreate, ReceiveFails, DatagramIgnored, ScanReads,
     LegacyStarts, LegacyEnds, CollectEnds, ScanWakes, ScanTimesOut, ScanReturns,
     ScanIsReady, CreateDiscoverer, NewDiscoverer, ShareDiscoveries, InstallDiscoverer,
     Shutdown
<1>4. ASSUME NEW d \in Disc, NEW p \in Device,
             \/ Announcement(d, p)
             \/ ResponseConfirmed(d, p) \/ ResponseFails(d, p)
      PROVE  ResultInv'
  BY <1>1, <1>4 DEF Announcement, ResponseConfirmed, ResponseFails, PutDiscovered, ScanRuns
<1>5. ASSUME NEW p \in Device, RegisterDevice(p) \/ ProbeConfirmed(p)
      PROVE  ResultInv'
  BY <1>1, <1>5 DEF RegisterDevice, ProbeConfirmed, PutDiscovered, ScanRuns
<1>6. CASE ScanBegins \/ ScanFails
  BY <1>6 DEF ScanBegins, ScanFails, ScanReturns, ResultInv, Hosts
<1>7. CASE ScanGathers
  <2>1. seen \in Disc /\ sock[seen] # "none"
    BY <1>7 DEF ScanGathers, ScanInv, BoundInv, DiscoveryTypeOK
  <2>2. confirmed \subseteq table[shares[seen]]
    BY <2>1 DEF TableInv
  <2>3. \A p \in table[shares[seen]] : \E q \in result' : HostOf[q] = HostOf[p]
    BY <1>7 DEF ScanGathers, DiscoveredSince
  <2>4. gathered' = confirmed /\ confirmed' = confirmed
    BY <1>7 DEF ScanGathers
  <2> QED
    BY <2>2, <2>3, <2>4 DEF ResultInv, Hosts
<1> QED
  BY <1>2, <1>3, <1>4, <1>5, <1>6, <1>7
  DEF Next, LifeStep, RebindStep, DiscoveryStep, ScanStep, QuietStep

-----------------------------------------------------------------------------
(* The theorems.                                                           *)

\* The rest of the state keeps its types; that the numbers of connections and uploads are
\* never negative is a consequence of counting them right.
LEMMA TypeStep ==
    ASSUME TypeOK, CountersMatch, Next, DiscoveryTypeOK', conns' \in ConnTable, CountersMatch'
    PROVE  TypeOK'
<1> USE ReceiverAssumption DEF TypeOK, lifeVars, connVars, sideVars, Outer
<1>1. active' \in Nat
  <2>1. CASE process' = "run"
    <3>1. active' = SumFunction(UploadsOf(conns'))
      BY <2>1, MatchesIsCountersMatch DEF Matches
    <3> QED
      BY <3>1, SumsAreNat
  <2>2. CASE process' # "run"
    <3>1. CASE ProcessExits
      BY <3>1 DEF ProcessExits
    <3>2. CASE \/ RequestStep \/ LifeStep \/ ServerReturns \/ Signal \/ Outer
      BY <2>2, <3>2 DEF Next, RequestStep, Accept, CloseConn, CloseAgain, AskLimiter, ComparePIN,
         ForgetAttempts, BeginUpload, LogTransfer, EndUpload, CommandEnds, LifeStep, StartFails,
         StartServes, StopBegins, StopDiscovery, DiscoveryStopped, Drained, StartReturns,
         ServerReturns, Signal
    <3> QED
      BY <3>1, <3>2 DEF Next
  <2> QED
    BY <2>1, <2>2
<1>2. conns' \in [IP -> [ConnState -> Nat]]
  BY DEF ConnTable
<1> HIDE DEF TypeOK
<1> DEFINE Rest == /\ scene' \in {"discovery", "requests"} /\ process' \in {"run", "exit"}
                   /\ start' \in {"init", "serve", "stopping", "returned"}
                   /\ stop' \in {"idle", "discovery", "wait", "drain", "done"}
                   /\ closed' \subseteq IP /\ total' \in 0 .. MaxTotal
                   /\ perIP' \in [IP -> 0 .. MaxPerIP] /\ attempts' \in [IP -> Nat]
                   /\ logOpen' \in BOOLEAN /\ marker' \in BOOLEAN
                   /\ commands' \in 0 .. CmdSlots
<1> SUFFICES Rest
  BY <1>1, <1>2 DEF TypeOK
<1>3. CASE \/ LifeStep \/ ServerReturns \/ Signal \/ ProcessExits
  BY <1>3 DEF TypeOK, LifeStep, StartFails, StartServes, StopBegins, StopDiscovery,
     DiscoveryStopped, Drained, StartReturns, ServerReturns, Signal, ProcessExits
<1>4. CASE Outer
  BY <1>4 DEF TypeOK
<1>5. CASE CommandEnds
  BY <1>5 DEF TypeOK, CommandEnds
<1>6. ASSUME NEW i \in IP, Accept(i) \/ CloseConn(i) \/ CloseAgain(i)
      PROVE  Rest
  <2>1. total' \in Nat
    BY SumsAreNat, MatchesIsCountersMatch DEF Matches
  <2>2. total' \in 0 .. MaxTotal
    BY <1>6, <2>1 DEF TypeOK, Accept, Acquire, CloseConn, Release, CloseAgain, ReleaseOnce
  <2>3. perIP' \in [IP -> 0 .. MaxPerIP]
    BY <1>6 DEF TypeOK, Accept, Acquire, Count, CloseConn, Release, CloseAgain, ReleaseOnce
  <2> QED
    BY <1>6, <2>2, <2>3 DEF TypeOK, Accept, CloseConn, CloseAgain
<1>7. ASSUME NEW i \in IP, AskLimiter(i) \/ ComparePIN(i) \/ ForgetAttempts(i)
      PROVE  Rest
  <2>1. attempts' \in [IP -> Nat]
    <3>1. CASE ComparePIN(i)
      <4>1. PICK n \in {attempts[i] + 1, attempts[i], 0} : attempts' = [attempts EXCEPT ![i] = n]
        BY <3>1 DEF ComparePIN
      <4>2. n \in Nat
        BY DEF TypeOK
      <4> QED
        BY <4>1, <4>2 DEF TypeOK
    <3>2. CASE AskLimiter(i) \/ ForgetAttempts(i)
      BY <3>2 DEF TypeOK, AskLimiter, ForgetAttempts
    <3> QED
      BY <1>7, <3>1, <3>2
  <2> QED
    BY <1>7, <2>1 DEF TypeOK, AskLimiter, ComparePIN, ForgetAttempts
<1>8. ASSUME NEW i \in IP, BeginUpload(i) \/ LogTransfer(i) \/ EndUpload(i)
      PROVE  Rest
  <2>1. commands' \in 0 .. CmdSlots
    BY <1>8 DEF TypeOK, BeginUpload, LogTransfer, EndUpload
  <2>2. marker' \in BOOLEAN
    <3>1. CASE BeginUpload(i) \/ LogTransfer(i)
      BY <3>1 DEF TypeOK, BeginUpload, LogTransfer
    <3>2. CASE EndUpload(i)
      <4>1. marker' = (active > 1)
        BY <3>2 DEF EndUpload
      <4>2. (active > 1) \in BOOLEAN
        OBVIOUS
      <4> QED
        BY <4>1, <4>2, Zenon
    <3> QED
      BY <1>8, <3>1, <3>2
  <2> QED
    BY <1>8, <2>1, <2>2 DEF TypeOK, BeginUpload, LogTransfer, EndUpload
<1> HIDE DEF Rest
<1> QED
  BY <1>3, <1>4, <1>5, <1>6, <1>7, <1>8 DEF Next, RequestStep

\* The parts together.
LEMMA ReceiverInvariant == Spec => []RInv
<1>1. ASSUME Init
      PROVE  RInv
  <2>1. DiscoveryTypeOK
    <3>1. ResponsesBounded
      <4>1. answering = {} /\ \A d \in Disc : {a \in answering : a[1] = d} = {}
        BY <1>1 DEF Init, DiscoveryInit
      <4> QED
        BY <4>1, FS_EmptySet, DiscoveryAssumption DEF ResponsesBounded
    <3>2. errors \in 0 .. MaxReceiveErrors
      BY <1>1, DiscoveryAssumption DEF Init, DiscoveryInit
    <3>3. sock \in [Disc -> {"none", "open", "closed"}] /\ table \in [Disc -> SUBSET Device]
      BY <1>1 DEF Init, DiscoveryInit
    <3> QED
      BY <1>1, <3>1, <3>2, <3>3 DEF Init, DiscoveryInit, DiscoveryTypeOK
  <2>2. TypeOK
    <3>1. /\ conns \in [IP -> [ConnState -> Nat]] /\ perIP \in [IP -> 0 .. MaxPerIP]
          /\ attempts \in [IP -> Nat]
      BY <1>1, ReceiverAssumption DEF Init
    <3>2. commands \in 0 .. CmdSlots
      BY <1>1, ReceiverAssumption DEF Init
    <3>3. logOpen \in BOOLEAN /\ marker \in BOOLEAN
      BY <1>1, Zenon DEF Init
    <3>5. total \in 0 .. MaxTotal /\ active \in Nat
      BY <1>1, ReceiverAssumption DEF Init
    <3>4. /\ scene \in {"discovery", "requests"} /\ process \in {"run", "exit"} /\ closed \subseteq IP
          /\ start \in {"init", "serve", "stopping", "returned"}
          /\ stop \in {"idle", "discovery", "wait", "drain", "done"}
      BY <1>1 DEF Init
    <3> QED
      BY <2>1, <3>1, <3>2, <3>3, <3>4, <3>5 DEF TypeOK
  <2>3. LifeInv /\ BoundInv /\ TableInv /\ ScanInv /\ WakeInv /\ ResultInv
    BY <1>1, DiscoveryAssumption
    DEF Init, DiscoveryInit, LifeInv, BoundInv, TableInv, ScanInv, WakeInv, ResultInv, Hosts
  <2>4. LimitInv
    BY <1>1, ReceiverAssumption DEF Init, LimitInv, ConnState
  <2>5. CountersMatch
    <3>1. \A i \in IP : OpenOf(conns)[i] = 0 /\ UploadsOf(conns)[i] = 0
      BY <1>1 DEF Init, OpenOf, UploadsOf, ConnState
    <3>2. OpenOf(conns) = [i \in IP |-> 0] /\ UploadsOf(conns) = [i \in IP |-> 0]
      BY <3>1 DEF OpenOf, UploadsOf
    <3>3. SumFunction([i \in IP |-> 0]) = 0
      BY SumZero, ReceiverAssumption
    <3>4. Matches(conns, total, perIP, process, active, marker)
      <4>1. (active > 0) = FALSE /\ marker = FALSE
        BY <1>1 DEF Init
      <4>2. marker = (active > 0)
        BY <4>1, Zenon
      <4>3. \A i \in IP \ {Loopback} : perIP[i] = OpenOf(conns)[i]
        BY <1>1, <3>1 DEF Init
      <4>4. total = SumFunction(OpenOf(conns)) /\ active = SumFunction(UploadsOf(conns))
        BY <1>1, <3>2, <3>3, Zenon DEF Init
      <4> QED
        BY <4>2, <4>3, <4>4, Zenon DEF Matches
    <3> QED
      BY <3>4, MatchesIsCountersMatch
  <2> QED
    BY <2>2, <2>3, <2>4, <2>5 DEF RInv
<1>2. ASSUME RInv, [Next]_vars
      PROVE  RInv'
  <2>1. CASE Next
    <3>1. DiscoveryTypeOK /\ DiscoveryTypeOK'
      BY <1>2, <2>1, DiscoveryTypeStep DEF RInv, TypeOK
    <3>2. conns' \in ConnTable /\ CountersMatch'
      BY <1>2, <2>1, CountStep DEF RInv
    <3>3. TypeOK'
      BY <1>2, <2>1, <3>1, <3>2, TypeStep DEF RInv
    <3>4. LifeInv' /\ BoundInv' /\ TableInv' /\ ScanInv' /\ WakeInv' /\ ResultInv'
      BY <1>2, <2>1, <3>1, LifeKept, BoundKept, TableKept, ScanKept, WakeKept, ResultKept
      DEF RInv
    <3>5. LimitInv'
      BY <1>2, <2>1, <3>2, LimitStep DEF RInv
    <3> QED
      BY <3>2, <3>3, <3>4, <3>5 DEF RInv
  <2>2. CASE UNCHANGED vars
    <3>1. TypeOK'
      BY <1>2, <2>2 DEF RInv, TypeOK, DiscoveryTypeOK, ResponsesBounded, vars, discVars,
         rebindVars, scanVars, lifeVars, connVars, sideVars
    <3>2. /\ LifeInv' /\ BoundInv' /\ TableInv' /\ ScanInv' /\ WakeInv'
          /\ ResultInv' /\ LimitInv'
      BY <1>2, <2>2 DEF RInv, LifeInv, BoundInv, TableInv, ScanInv, WakeInv, ResultInv, LimitInv,
         Hosts, vars, discVars, rebindVars, scanVars, lifeVars, connVars
    <3>3. CountersMatch'
      <4>1. UNCHANGED <<conns, total, perIP, process, active, marker>>
        BY <2>2 DEF vars, lifeVars, connVars, sideVars
      <4> QED
        BY <1>2, <4>1, MatchesIsCountersMatch DEF RInv
    <3> QED
      BY <3>1, <3>2, <3>3 DEF RInv
  <2> QED
    BY <1>2, <2>1, <2>2
<1> QED
  BY <1>1, <1>2, PTL DEF Spec

\* The receiver's state keeps its types: neither the connections and those of each
\* address, nor the announcements answered at a time, nor the commands pass their limits,
\* and no counter goes below zero (acquire, responsesInFlight, cmdSlots).
THEOREM ReceiverTypes == Spec => []TypeOK
<1>1. RInv => TypeOK
  BY DEF RInv
<1> QED
  BY <1>1, ReceiverInvariant, PTL

\* The connection limiter and the activity marker count what there is, for any number of
\* addresses and however often a connection is closed (acquire, releaseOnce, Begin, End).
THEOREM CountersRight == Spec => []CountersMatch
<1>1. RInv => CountersMatch
  BY DEF RInv
<1> QED
  BY <1>1, ReceiverInvariant, PTL

\* Parallel requests guess a PIN at most MaxPINAttempts - 1 + MaxPerIP times
\* (validatePIN, acquire).
THEOREM BudgetKept == Spec => []GuessBudget
<1>1. RInv => GuessBudget
  <2> SUFFICES ASSUME RInv, NEW i \in IP \ {Loopback}
               PROVE  attempts[i] < MaxPINAttempts + MaxPerIP
    BY DEF GuessBudget
  <2>1. attempts[i] \in Nat /\ conns[i]["checked"] \in Nat
    BY DEF RInv, TypeOK, ConnState
  <2> QED
    BY <2>1, ReceiverAssumption DEF RInv, LimitInv
<1> QED
  BY <1>1, ReceiverInvariant, PTL

\* A scan that returns at the end of its windows reports the host of every device
\* confirmed while it ran, whichever Discoverer confirmed it; one that its deadline cuts
\* off while it waits for the sockets reports those confirmed until it last gathered
\* (ShareDiscoveries, DiscoveredSince, Scan).
THEOREM ScanIsComplete == Spec => []ScanSeesAll
<1>1. RInv => ScanSeesAll
  BY DEF RInv, ResultInv, ScanSeesAll
<1> QED
  BY <1>1, ReceiverInvariant, PTL

\* A scan that waits is woken by every rebind (installDiscoverer, discoveryChanged).
THEOREM RebindWakes == Spec => []NoMissedChange
<1>1. RInv => NoMissedChange
  BY DEF RInv, WakeInv, NoMissedChange
<1> QED
  BY <1>1, ReceiverInvariant, PTL
=============================================================================
