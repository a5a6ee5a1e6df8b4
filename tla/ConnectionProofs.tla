-------------------------- MODULE ConnectionProofs --------------------------
(* Who is dialled, who answers and who listens, for any number of faults.    *)
EXTENDS Connection, TLAPS

\* What the connection's properties rest on: one query at a time; whoever may
\* dial the upgrade server was listened to, and found, before.
OneQuery == IF dns_state = "founding" THEN queries = 1 /\ ~USE_IP ELSE queries = 0
Heard == /\ version \/ get_is_upgrade_need_net \/ connect_cb = "http_connect_cb" => recv_cb
         /\ recv_cb => HasAddress
Inv == TypeOK /\ RightCallback /\ OnlyFiles /\ Listened /\ Resolved /\ OneQuery /\ Heard

LEMMA InitInv == Init => Inv
<1> SUFFICES ASSUME Init PROVE Inv
  OBVIOUS
<1>1. /\ wifi \in BOOLEAN /\ is_wifi_connect \in BOOLEAN /\ recv_cb \in BOOLEAN
      /\ version \in BOOLEAN
  BY DEF Init
<1>2. faults \in 0 .. MaxFaults
  BY ConnectionAssumption DEF Init
<1>3. TypeOK
  BY <1>1, <1>2 DEF Init, TypeOK, Ports, Callbacks
<1>4. ~recv_cb /\ ~version
  BY DEF Init
<1>5. RightCallback /\ OnlyFiles /\ Listened /\ Resolved
  BY DEF Init, RightCallback, OnlyFiles, Listened, Resolved, Busy
<1>6. OneQuery /\ Heard
  BY <1>4 DEF Init, OneQuery, Heard, get_is_upgrade_need_net
<1>7. QED
  BY <1>3, <1>5, <1>6 DEF Inv

LEMMA StepInv == Inv /\ [Next]_vars => Inv'
<1> SUFFICES ASSUME Inv, [Next]_vars PROVE Inv'
  OBVIOUS
<1> USE ConnectionAssumption
    DEF Inv, TypeOK, RightCallback, OnlyFiles, Listened, Resolved, OneQuery, Heard, Busy, Ports,
        Callbacks, get_is_upgrade_need_net, HasAddress, Fault,
        wifiVars, dnsVars, connVars, vars, espconn_connect
<1>1. CASE UNCHANGED vars
  BY <1>1
<1>2. CASE WifiUp \/ WifiDown
  <2>1. wifi' \in BOOLEAN
    BY <1>2, Zenon DEF WifiUp, WifiDown
  <2>2. faults' \in 0 .. MaxFaults
    BY <1>2 DEF WifiUp, WifiDown
  <2>3. UNCHANGED <<is_wifi_connect, dnsVars, connVars, version, upgrade_state>>
    BY <1>2 DEF WifiUp, WifiDown
  <2>4. QED
    BY <2>1, <2>2, <2>3
<1>3. CASE DnsFound
  BY <1>3 DEF DnsFound
<1>4. CASE Connected
  BY <1>4 DEF Connected, Registered
<1>5. CASE Failed
  BY <1>5 DEF Failed
<1>6. CASE PeerCloses \/ IdleCloses
  BY <1>6 DEF PeerCloses, IdleCloses, Closed
<1>7. ASSUME NEW w \in BOOLEAN, NEW d \in BOOLEAN, NEW c \in BOOLEAN, net_update(w, d, c)
      PROVE  Inv'
  BY <1>7 DEF net_update, CheckDns, Resolving, MayDial, server_connect
<1>8. CASE VersionCame
  BY <1>8 DEF VersionCame
<1>9. CASE GetVersion
  <2>1. recv_cb /\ HasAddress
    BY <1>9 DEF GetVersion
  <2>2. version' = FALSE /\ UNCHANGED <<wifiVars, dnsVars, faults, recv_cb>>
    BY <1>9 DEF GetVersion, http_get, server_connect_port
  <2>3. CASE upgrade_state' = "connecting" /\ http_get
    <3>1. /\ remote_port' = "upgrade" /\ connect_cb' = "http_connect_cb"
          /\ \/ conn_state' = "wait" /\ peer' = "upgrade"
             \/ conn_state' = "close" /\ peer' = peer
      BY <2>3 DEF http_get, server_connect_port
    <3>2. QED
      BY <2>1, <2>2, <2>3, <3>1
  <2>4. CASE upgrade_state' = "idle" /\ UNCHANGED connVars
    <3>1. version' \in BOOLEAN /\ ~version'
      BY <2>2
    <3>2. QED
      BY <2>1, <2>2, <2>4, <3>1
  <2>5. QED
    BY <1>9, <2>3, <2>4 DEF GetVersion
<1>10. CASE HttpConnect
  BY <1>10 DEF HttpConnect, server_connect_port
<1>11. CASE Downloaded
  BY <1>11 DEF Downloaded, Upgrading
<1>12. CASE GiveUp \/ Finish
  BY <1>12 DEF GiveUp, Finish
<1>13. CASE Restart
  <2>1. faults' \in 0 .. MaxFaults
    BY <1>13 DEF Restart
  <2>2. QED
    BY <1>13, <2>1 DEF Restart, Start
<1>14. QED
  BY <1>1, <1>2, <1>3, <1>4, <1>5, <1>6, <1>7, <1>8, <1>9, <1>10, <1>11, <1>12, <1>13
  DEF Next

LEMMA Invariance == Spec => []Inv
<1>1. Init => Inv
  BY InitInv
<1>2. Inv /\ [Next]_vars => Inv'
  BY StepInv
<1>3. QED
  BY <1>1, <1>2, PTL DEF Spec

\* The variables keep their types, and there is one query at a time.
THEOREM TypeCorrect == Spec => []TypeOK
<1>1. Inv => TypeOK
  BY DEF Inv
<1>2. QED
  BY <1>1, Invariance, PTL

\* Each server's connection is answered to that server's callback: http_get
\* drops the dial it would otherwise take over (http_get, server_connect).
THEOREM CallbackCorrect == Spec => []RightCallback
<1>1. Inv => RightCallback
  BY DEF Inv
<1>2. QED
  BY <1>1, Invariance, PTL

\* Only the upgrade server's data is taken for a file (tcp_recv_cb).
THEOREM FilesCorrect == Spec => []OnlyFiles
<1>1. Inv => OnlyFiles
  BY DEF Inv
<1>2. QED
  BY <1>1, Invariance, PTL

\* A connection is listened to: the upgrade server is only dialled after an
\* answer of the main server, whose callback registered tcp_recv_cb
\* (server_connect_cb, http_connect_cb).
THEOREM ListenedCorrect == Spec => []Listened
<1>1. Inv => Listened
  BY DEF Inv
<1>2. QED
  BY <1>1, Invariance, PTL

\* Nothing is dialled before its address is known (net_update, http_get).
THEOREM ResolvedCorrect == Spec => []Resolved
<1>1. Inv => Resolved
  BY DEF Inv
<1>2. QED
  BY <1>1, Invariance, PTL

\* The address stays known until the device restarts (net_dns_found_cb).
THEOREM KeptCorrect == Spec => AddressKept
<1> DEFINE Kept == (dns_state = "found" => dns_state' = "found") \/ Restart
<1>1. Inv /\ [Next]_vars => [Kept]_vars
  <2> SUFFICES ASSUME Inv, Next PROVE Kept
    BY DEF vars
  <2> USE DEF Inv, OneQuery, dnsVars
  <2>1. CASE DnsFound
    BY <2>1 DEF DnsFound
  <2>2. ASSUME NEW w \in BOOLEAN, NEW d \in BOOLEAN, NEW c \in BOOLEAN, net_update(w, d, c)
        PROVE  Kept
    BY <2>2 DEF net_update, CheckDns
  <2>3. QED
    BY <2>1, <2>2
    DEF Next, WifiUp, WifiDown, Connected, Failed, PeerCloses, IdleCloses, Closed, VersionCame,
        GetVersion, HttpConnect, Downloaded, GiveUp, Finish
<1>2. QED
  BY <1>1, Invariance, PTL DEF Spec, AddressKept
=============================================================================
