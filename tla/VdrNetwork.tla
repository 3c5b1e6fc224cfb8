------------------------------ MODULE VdrNetwork ------------------------------
(***************************************************************************)
(* The network servers of a playback: VdrNetworkServer                     *)
(* (src/src/vdr_network.cpp), and what RecordPlayMgr does with its two     *)
(* servers (src/src/record_play_mgr.cpp).                                  *)
(*                                                                         *)
(* A server has a listening socket (TCP) or a sending one (UDP).  It never *)
(* has a connection: the handler that would accept one, OnTcpEvent, is     *)
(* bound to an event type of its own, and the listening socket posts the   *)
(* library's.  Clients wait unaccepted until the socket is deleted, the    *)
(* list m_tcp_clients stays empty, and sending changes nothing here: what  *)
(* it does in a state is an operator of it.                                *)
(***************************************************************************)
EXTENDS Integers

CONSTANT Settings    \* the connection settings the preferences may have for a server

ConnectionSettings == [enabled : BOOLEAN, tcp : BOOLEAN, port : Nat]

ASSUME NetworkAssumption == Settings \subseteq ConnectionSettings

Servers == {"NMEA0183", "N2K"}

VARIABLES
  settings,   \* m_protocols.nmea0183Net and n2kNet
  playing,    \* m_playing, in the modes that read line by line
  server,     \* m_network_servers
  plugin,     \* "on" or "off"
  status,     \* the servers that the panel's network status names
  applied     \* history: settings and file are those of the last StartPlayback

vars == <<settings, playing, server, plugin, status, applied>>

\* m_running, m_useTCP, m_port, and whether there is an m_tcp_server and an
\* m_udp_socket.
ServerStates ==
  [running : BOOLEAN, tcp : BOOLEAN, port : Nat, listening : BOOLEAN, udp : BOOLEAN]

TypeOK ==
  /\ settings \in [Servers -> ConnectionSettings]
  /\ playing \in BOOLEAN /\ applied \in BOOLEAN
  /\ server \in [Servers -> ServerStates]
  /\ \A s \in Servers :
       server[s].running => server[s].port >= 1024 /\ server[s].port <= 65535
  /\ plugin \in {"on", "off"}
  /\ status \subseteq Servers

\* What a line that is played may be, by how it begins.
Texts == {"NMEA0183", "N2K", "other"}

\* A server as it is constructed.
NewServer ==
  [running |-> FALSE, tcp |-> TRUE, port |-> 10111, listening |-> FALSE, udp |-> FALSE]

\* A fault: the lowest ports are let through.
PositivePort(p) == p > 0 /\ p <= 65535

\* The ports that Start accepts.
ValidPort(p) == p >= 1024 /\ p <= 65535

-----------------------------------------------------------------------------
(* VdrNetworkServer, for server s of the two servers n.                    *)

\* Stop
Stopped(n, s) ==
  [n EXCEPT ![s].running = FALSE, ![s].listening = FALSE, ![s].udp = FALSE]

\* A fault: a server that was stopped still has its port.
FreeOnce(n, s, p) ==
  \A t \in Servers \ {s} : ~(n[t].tcp /\ n[t].port = p)

\* The port is not taken by the other server.
Free(n, s, p) ==
  \A t \in Servers \ {s} : ~(n[t].listening /\ n[t].port = p)

\* Start succeeds; ok tells if the system provides the socket.
StartSucceeds(n, s, to, ok) ==
  ValidPort(to.port) /\ ok /\ (to.tcp => Free(n, s, to.port))

\* Start, of a server that was stopped.  What it is to use is set even if it
\* fails.
Started(n, s, to, ok) ==
  LET up == StartSucceeds(n, s, to, ok)
  IN  [n EXCEPT ![s] = [running |-> up, tcp |-> to.tcp, port |-> to.port,
                        listening |-> to.tcp /\ up, udp |-> ~to.tcp /\ up]]

\* SendText: the ports to which a datagram goes.  Over TCP there is nobody.
SentBy(n, s) ==
  IF n[s].running /\ ~n[s].tcp /\ n[s].udp THEN {n[s].port} ELSE {}

-----------------------------------------------------------------------------
(* RecordPlayMgr.                                                          *)

\* A fault: only the protocol is compared.
ToStartOther(n, s) ==
  /\ settings[s].enabled
  /\ ~n[s].running \/ n[s].tcp # settings[s].tcp

\* The server has to be started (again) to be as its settings say.
ToStart(n, s) ==
  /\ settings[s].enabled
  /\ \/ ~n[s].running
     \/ n[s].tcp # settings[s].tcp
     \/ n[s].port # settings[s].port

\* The panel's status names the servers that failed to start, or none.
UpdateNetworkStatus(names) == status' = names

\* InitializeNetworkServers for one server.
Initialized(n, s, ok) ==
  CASE ToStart(n, s) -> Started(Stopped(n, s), s, settings[s], ok)
    [] ~settings[s].enabled /\ n[s].running -> Stopped(n, s)
    [] OTHER -> n

\* Its Start returns FALSE.
Fails(n, s, ok) ==
  ToStart(n, s) /\ ~StartSucceeds(Stopped(n, s), s, settings[s], ok)

\* StartPlayback goes on if servers fail to start, and the status names them.
\* It is called again to resume, and to restart at the end of the file.
StartPlayback(ok) ==
  /\ plugin = "on" /\ ~playing
  /\ LET n == Initialized(server, "NMEA0183", ok["NMEA0183"])
     IN  /\ server' = Initialized(n, "N2K", ok["N2K"])
         /\ UpdateNetworkStatus({s \in Servers :
              Fails(IF s = "N2K" THEN n ELSE server, s, ok[s])})
  /\ playing' = TRUE /\ applied' = TRUE
  /\ UNCHANGED <<settings, plugin>>

\* PausePlayback, also at the end of the file: the servers run on.
PausePlayback ==
  /\ plugin = "on" /\ playing
  /\ playing' = FALSE
  /\ UNCHANGED <<settings, server, plugin, status, applied>>

\* A fault: it is asked which server runs, not which one is enabled.
DatagramsOfRunning(text) ==
  CASE text # "other" /\ server["NMEA0183"].running -> SentBy(server, "NMEA0183")
    [] text = "N2K" /\ ~server["NMEA0183"].running -> SentBy(server, "N2K")
    [] OTHER -> {}

\* HandleNetworkPlayback, for a line that Notify plays: the ports it is sent to.
\* All texts of NMEA 2000 begin like sentences of NMEA 0183.
Datagrams(text) ==
  CASE text # "other" /\ settings["NMEA0183"].enabled -> SentBy(server, "NMEA0183")
    [] text = "N2K" /\ ~settings["NMEA0183"].enabled /\ settings["N2K"].enabled ->
         SentBy(server, "N2K")
    [] OTHER -> {}

\* StopNetworkServers
StoppedAll(n) ==
  LET m == IF n["NMEA0183"].running THEN Stopped(n, "NMEA0183") ELSE n
  IN  IF m["N2K"].running THEN Stopped(m, "N2K") ELSE m

\* StopPlayback, which does nothing unless playing.
StopPlayback ==
  /\ plugin = "on" /\ playing
  /\ server' = StoppedAll(server)
  /\ playing' = FALSE /\ applied' = FALSE
  /\ UNCHANGED <<settings, plugin, status>>

\* The load button, which stops a playback, and VdrControl::LoadFile, which
\* clears the status.
LoadFile ==
  /\ plugin = "on"
  /\ server' = IF playing THEN StoppedAll(server) ELSE server
  /\ playing' = FALSE /\ applied' = FALSE /\ UpdateNetworkStatus({})
  /\ UNCHANGED <<settings, plugin>>

\* The spin control of the dialog for a port, which shows the nearest one.
Offered(p) == IF p < 1024 THEN 1024 ELSE IF p > 65535 THEN 65535 ELSE p

\* OK in the preferences dialog, with the settings of s changed or not: what
\* is shown is taken over for both servers, and neither is told.
ShowPreferencesDialog(s, to) ==
  /\ plugin = "on"
  /\ settings' = [t \in Servers |->
                    LET now == IF t = s THEN to ELSE settings[t]
                    IN  [now EXCEPT !.port = Offered(@)]]
  /\ applied' = (applied /\ settings' = settings)
  /\ UNCHANGED <<playing, server, plugin, status>>

\* The destructor of a server, after which it is as if never made.
Destroyed(n, s) ==
  [IF n[s].running THEN Stopped(n, s) ELSE n EXCEPT ![s] = NewServer]

\* DeInit stops and destroys the servers.
DeInit ==
  /\ plugin = "on"
  /\ server' = Destroyed(Destroyed(StoppedAll(server), "NMEA0183"), "N2K")
  /\ plugin' = "off"
  /\ playing' = FALSE /\ applied' = FALSE /\ status' = {}
  /\ UNCHANGED settings

LoadPlugin ==
  /\ plugin = "off"
  /\ plugin' = "on"
  /\ UNCHANGED <<settings, playing, server, status, applied>>

-----------------------------------------------------------------------------

Init ==
  /\ settings \in [Servers -> Settings]
  /\ playing = FALSE
  /\ server = [s \in Servers |-> NewServer]
  /\ plugin = "on"
  /\ status = {} /\ applied = FALSE

Next ==
  \/ \E ok \in [Servers -> BOOLEAN] : StartPlayback(ok)
  \/ PausePlayback
  \/ StopPlayback
  \/ LoadFile
  \/ \E s \in Servers, to \in Settings : ShowPreferencesDialog(s, to)
  \/ DeInit
  \/ LoadPlugin

Spec == Init /\ [][Next]_vars

-----------------------------------------------------------------------------
(* Properties.                                                             *)

\* After StartPlayback the servers are as the preferences say, each with the one
\* socket it is to use, or the network status names those that are not and have
\* none: InitializeNetworkServers restarts exactly the servers whose settings have
\* changed, also where ports are exchanged and a start fails.
AsConfigured ==
  applied =>
    \A s \in Servers :
      IF settings[s].enabled /\ s \notin status
      THEN server[s] = [ running |-> TRUE, tcp |-> settings[s].tcp,
                         port |-> settings[s].port,
                         listening |-> settings[s].tcp, udp |-> ~settings[s].tcp ]
      ELSE {server[s].running, server[s].listening, server[s].udp} = {FALSE}

\* The servers that are to use TCP.
Tcp == {s \in Servers : settings[s].tcp}

\* What is played goes out as the preferences say: a line for an enabled server
\* with UDP goes to the port that is set for it, however often ports and protocols
\* were changed before, unless the status names that server; a text of NMEA 2000
\* that NMEA 0183 does not take goes to its own.  Nothing goes anywhere else, nor
\* for a server that was disabled and still runs.
GoesOutAsConfigured ==
  /\ playing /\ applied =>
       /\ \A text \in Texts \ {"other"} :
            settings["NMEA0183"].enabled =>
              Datagrams(text) = {settings[s].port : s \in {"NMEA0183"} \ (status \union Tcp)}
       /\ ~settings["NMEA0183"].enabled /\ settings["N2K"].enabled =>
            Datagrams("N2K") = {settings[s].port : s \in {"N2K"} \ (status \union Tcp)}
  /\ \A text \in Texts : Datagrams(text) \subseteq
       {server[s].port : s \in {t \in Servers : settings[t].enabled}}

\* The settings ask for nothing that Start would refuse, and for no TCP port
\* twice.
Compatible ==
  /\ \A s \in Servers : settings[s].enabled => ValidPort(settings[s].port)
  /\ ~ \E s, t \in Servers :
         /\ s # t /\ settings[s].enabled /\ settings[t].enabled
         /\ settings[s].tcp /\ settings[t].tcp /\ settings[s].port = settings[t].port

\* Playing again heals: where a server failed to start, for want of a socket or
\* because the other one still held its port when the ports were exchanged, the
\* next StartPlayback brings up all servers that are enabled, and only these,
\* if now the system provides the sockets.  It takes no more than that one, although
\* a failed start has set what the server is to use as if it were running.
PlayingAgainHeals ==
  [][ /\ StartPlayback([s \in Servers |-> TRUE]) /\ Compatible
      /\ applied \/ \A s \in Servers : ~server[s].running
      => /\ status' = {}
         /\ \A s \in Servers : server'[s].running = settings[s].enabled ]_vars

=============================================================================
