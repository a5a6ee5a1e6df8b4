----------------------------- MODULE Connection -----------------------------
(***************************************************************************)
(* The one TCP connection of the device (user/net.c), which serves the     *)
(* main server and the download from the upgrade server in turn            *)
(* (user/http_func.c), and the Wi-Fi and DNS checks it depends on.         *)
(*                                                                         *)
(* server_conn's fields outlive a connection, and the SDK uses the values  *)
(* they have when something happens: a dial under way is answered to the   *)
(* callback registered last, and a renewed one goes to the port set last.  *)
(* The upgrade appears by what it does to the connection: module Upgrade   *)
(* has the detail.                                                         *)
(***************************************************************************)
EXTENDS Naturals

CONSTANTS
  USE_IP,                  \* the server's address is configured: no DNS
  MaxFaults,               \* bounds the failures of network, name server and device
  MaxQueries               \* bounds name queries under way

ASSUME ConnectionAssumption == USE_IP \in BOOLEAN /\ MaxFaults \in Nat /\ MaxQueries \in Nat

VARIABLES
  wifi, is_wifi_connect,   \* the station has an address; what the last check found
  dns_state, queries,      \* queries under way
  conn_state,              \* server_conn.state; "wait" is a dial under way
  remote_port, connect_cb, \* of server_conn
  recv_cb,                 \* whether tcp_recv_cb is registered
  peer,                    \* where the dial went
  version,                 \* CMD_GET_FIRMWARE_VER's answer is in recv_buf
  upgrade_state,           \* its states that concern the connection, and "other"
  faults

wifiVars == <<wifi, is_wifi_connect>>
dnsVars  == <<dns_state, queries>>
connVars == <<conn_state, remote_port, connect_cb, recv_cb, peer>>
vars == <<wifiVars, dnsVars, connVars, version, upgrade_state, faults>>

Ports     == {"main", "upgrade"}
Callbacks == {"server_connect_cb", "http_connect_cb"}

Fault == faults < MaxFaults /\ faults' = faults + 1

get_is_upgrade_need_net == upgrade_state \in {"connecting", "download"}
HasAddress == USE_IP \/ dns_state = "found"
Busy(state) == state \in {"wait", "connected"}
Upgrading == conn_state = "connected" /\ peer = "upgrade"

\* A device that starts; an upgrade that was interrupted may go on.
Start ==
  /\ wifi' = FALSE /\ is_wifi_connect' = FALSE /\ dns_state' = "no_found" /\ queries' = 0
  /\ conn_state' = "none" /\ remote_port' = "main" /\ connect_cb' = "server_connect_cb"
  /\ recv_cb' = FALSE /\ peer' = "main" /\ version' = FALSE
  /\ upgrade_state' \in {"idle", "other"}
Init ==
  /\ wifi = FALSE /\ is_wifi_connect = FALSE /\ dns_state = "no_found" /\ queries = 0
  /\ conn_state = "none" /\ remote_port = "main" /\ connect_cb = "server_connect_cb"
  /\ recv_cb = FALSE /\ peer = "main" /\ version = FALSE
  /\ upgrade_state \in {"idle", "other"} /\ faults = 0

-----------------------------------------------------------------------------
(* The SDK.                                                                *)

\* espconn_connect refuses while a connection exists, or without an address
\* of the station.
espconn_connect(state, port) ==
  IF ~Busy(state) /\ wifi THEN conn_state' = "wait" /\ peer' = port
                          ELSE conn_state' = state /\ peer' = peer

WifiUp ==
  /\ ~wifi /\ wifi' = TRUE
  /\ UNCHANGED <<is_wifi_connect, dnsVars, connVars, version, upgrade_state, faults>>
WifiDown ==
  /\ wifi /\ wifi' = FALSE /\ Fault
  /\ UNCHANGED <<is_wifi_connect, dnsVars, connVars, version, upgrade_state>>

\* net_dns_found_cb.
DnsFound ==
  /\ queries > 0 /\ queries' = queries - 1
  /\ \/ wifi /\ dns_state' = "found" /\ UNCHANGED faults
     \/ dns_state' = "no_found" /\ (IF wifi THEN Fault ELSE UNCHANGED faults)
  /\ UNCHANGED <<wifiVars, connVars, version, upgrade_state>>

BugRegistered == recv_cb
Registered == TRUE

\* server_connect_cb and http_connect_cb.  Only the first registers
\* tcp_recv_cb; the second finds it registered by an earlier connection.
Connected ==
  /\ conn_state = "wait" /\ wifi /\ conn_state' = "connected"
  /\ IF connect_cb = "server_connect_cb"
       THEN recv_cb' = Registered /\ UNCHANGED upgrade_state
       ELSE upgrade_state' = "download" /\ UNCHANGED recv_cb
  /\ UNCHANGED <<wifiVars, dnsVars, remote_port, connect_cb, peer, version, faults>>

\* tcp_reconnect_cb: a dial or connection that fails is dialled again at once.
Failed ==
  /\ Busy(conn_state)
  /\ espconn_connect("close", remote_port)
  /\ IF wifi THEN Fault ELSE UNCHANGED faults
  /\ UNCHANGED <<wifiVars, dnsVars, remote_port, connect_cb, recv_cb, version, upgrade_state>>

\* tcp_disconnect_cb: closed by the other side, and only noted.  The upgrade
\* server does not keep a connection nobody uses.
Closed ==
  /\ conn_state = "connected" /\ conn_state' = "close"
  /\ UNCHANGED <<wifiVars, dnsVars, remote_port, connect_cb, recv_cb, peer, version,
                 upgrade_state>>
PeerCloses == Closed /\ Fault
IdleCloses == Closed /\ Upgrading /\ ~get_is_upgrade_need_net /\ UNCHANGED faults

-----------------------------------------------------------------------------
(* net_update: each check when it is due.                                  *)

BugResolving == dns_state
Resolving == "founding"
CheckDns(online) ==
  IF ~USE_IP /\ online /\ dns_state = "no_found" /\ queries < MaxQueries
    THEN dns_state' = Resolving /\ queries' = queries + 1
    ELSE UNCHANGED dnsVars

BugClosedForGood == conn_state = "none" /\ ~get_is_upgrade_need_net /\ HasAddress
MayDial == conn_state \in {"none", "close"} /\ ~get_is_upgrade_need_net /\ HasAddress

\* server_connect.
server_connect ==
  /\ remote_port' = "main" /\ connect_cb' = "server_connect_cb"
  /\ espconn_connect(conn_state, "main")
  /\ UNCHANGED recv_cb

net_update(wifi_due, dns_due, conn_due) ==
  LET online == IF wifi_due THEN wifi ELSE is_wifi_connect IN
    /\ is_wifi_connect' = online
    /\ IF dns_due THEN CheckDns(online) ELSE UNCHANGED dnsVars
    /\ IF conn_due /\ online /\ MayDial THEN server_connect ELSE UNCHANGED connVars
    /\ UNCHANGED <<wifi, version, upgrade_state, faults>>

-----------------------------------------------------------------------------
(* The upgrade.                                                            *)

\* tcp_recv_cb: the main server answers the request for the latest version.
VersionCame ==
  /\ conn_state = "connected" /\ peer = "main" /\ recv_cb /\ ~version
  /\ version' = TRUE
  /\ UNCHANGED <<wifiVars, dnsVars, connVars, upgrade_state, faults>>

\* server_connect_port, with server_conn in a state.
server_connect_port(state) ==
  /\ remote_port' = "upgrade" /\ connect_cb' = "http_connect_cb"
  /\ espconn_connect(state, "upgrade")
  /\ UNCHANGED recv_cb

\* http_get: server_abort, then the upgrade server.
BugHttpGet == server_connect_port(conn_state)
http_get == server_connect_port("close")

\* set_upgrade_get_version, when the main loop comes to the answer.
GetVersion ==
  /\ version /\ version' = FALSE
  /\ \/ upgrade_state' = "connecting" /\ http_get
     \/ upgrade_state' = "idle" /\ UNCHANGED connVars
  /\ UNCHANGED <<wifiVars, dnsVars, faults>>

\* upgrade_update: http_connect, again and again.
HttpConnect ==
  /\ upgrade_state = "connecting"
  /\ server_connect_port(conn_state)
  /\ UNCHANGED <<wifiVars, dnsVars, version, upgrade_state, faults>>

\* http_handle's last data: set_upgrade_download_done aborts the connection
\* unless the upgrade is forced; or its error: clear_is_need_upgrade.
Downloaded ==
  /\ upgrade_state = "download" /\ Upgrading /\ recv_cb
  /\ \/ upgrade_state' = "other" /\ conn_state' \in {"close", conn_state}
     \/ upgrade_state' = "idle" /\ UNCHANGED conn_state
  /\ UNCHANGED <<wifiVars, dnsVars, remote_port, connect_cb, recv_cb, peer, version, faults>>

\* The MCU did not answer: set_mcu_upgrade_result.  And the rest of an upgrade.
GiveUp ==
  /\ upgrade_state # "idle" /\ upgrade_state' = "other"
  /\ UNCHANGED <<wifiVars, dnsVars, connVars, version, faults>>
Finish ==
  /\ upgrade_state = "other" /\ upgrade_state' = "idle"
  /\ UNCHANGED <<wifiVars, dnsVars, connVars, version, faults>>

\* The device restarts: for an upgrade, or failed.
Restart == Start /\ Fault

Next ==
  \/ WifiUp \/ WifiDown \/ DnsFound \/ Connected \/ Failed \/ PeerCloses \/ IdleCloses
  \/ \E w, d, c \in BOOLEAN : net_update(w, d, c)
  \/ VersionCame \/ GetVersion \/ HttpConnect \/ Downloaded \/ GiveUp \/ Finish \/ Restart
Spec == Init /\ [][Next]_vars

\* The main loop's checks become due again; the SDK reports what it was asked
\* for; a download that goes on ends, and its server closes what it keeps open.
FairSpec ==
  /\ Spec
  /\ WF_vars(\E d, c \in BOOLEAN : net_update(TRUE, d, c))
  /\ WF_vars(\E w, c \in BOOLEAN : net_update(w, TRUE, c))
  /\ WF_vars(\E w, d \in BOOLEAN : net_update(w, d, TRUE))
  /\ WF_vars(WifiUp) /\ WF_vars(DnsFound) /\ WF_vars(Connected)
  /\ WF_vars(GetVersion) /\ WF_vars(HttpConnect)
  /\ WF_vars(Downloaded) /\ WF_vars(IdleCloses)

-----------------------------------------------------------------------------
(* Properties.                                                             *)

TypeOK ==
  /\ wifi \in BOOLEAN /\ is_wifi_connect \in BOOLEAN
  /\ dns_state \in {"no_found", "founding", "found"} /\ queries \in {0, 1}
  /\ conn_state \in {"none", "wait", "connected", "close"}
  /\ remote_port \in Ports /\ connect_cb \in Callbacks /\ recv_cb \in BOOLEAN /\ peer \in Ports
  /\ version \in BOOLEAN /\ faults \in 0 .. MaxFaults
  /\ upgrade_state \in {"idle", "connecting", "download", "other"}

\* A dial is answered to the callback of the server it went to, and renewed to
\* the same, whatever was registered while it was under way: the main server
\* never gets the GET of http_connect_cb (http_get, server_connect).
RightCallback ==
  Busy(conn_state) => /\ remote_port = peer
                      /\ connect_cb = "http_connect_cb" <=> peer = "upgrade"

\* What http_handle takes for a file's data comes from the upgrade server
\* (tcp_recv_cb with get_is_upgrade_need_net).
OnlyFiles == get_is_upgrade_need_net /\ Busy(conn_state) => peer = "upgrade"

\* A connection is listened to, also one whose callback registers no
\* tcp_recv_cb (http_connect_cb).
Listened == conn_state = "connected" => recv_cb

\* No server is dialled before its name is resolved (dns_ip starts as zeros).
Resolved == Busy(conn_state) => HasAddress

\* An address once found is not lost to a late failure of another query
\* (net_update, net_dns_found_cb).
AddressKept == [][(dns_state = "found" => dns_state' = "found") \/ Restart]_vars

\* When faults end, the main server is reached again and again, unless the
\* upgrade server closed the connection under a download, or Wi-Fi was lost
\* then: nothing dials in that state (net_update, upgrade_update).
Abandoned  == upgrade_state = "download" /\ ~Busy(conn_state)
BackOnline == []<>(conn_state = "connected" /\ peer = "main") \/ <>[]Abandoned
=============================================================================
