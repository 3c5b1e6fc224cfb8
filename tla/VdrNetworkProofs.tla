-------------------------- MODULE VdrNetworkProofs --------------------------
(***************************************************************************)
(* Theorems about VdrNetwork, for every set of settings.                   *)
(***************************************************************************)
EXTENDS VdrNetwork, TLAPS

\* A server that runs has a port that is allowed and the one socket of its
\* protocol; one that does not has none.
Sockets(r) ==
  /\ r.running => ValidPort(r.port)
  /\ r.listening = (r.running /\ r.tcp)
  /\ r.udp = (r.running /\ ~r.tcp)

Sound(n) ==
  /\ n \in [Servers -> ServerStates]
  /\ \A s \in Servers : Sockets(n[s])

\* At most server s is touched.
Touches(n, m, s) == \A t \in Servers \ {s} : m[t] = n[t]

\* What AsConfigured says of a server in state r.
HasSockets(r, to) ==
  /\ r.running = TRUE /\ r.tcp = to.tcp /\ r.port = to.port
  /\ r.listening = to.tcp /\ r.udp = ~to.tcp

HasNone(r) == r.running = FALSE /\ r.listening = FALSE /\ r.udp = FALSE

\* The inductive invariant.
Inv == TypeOK /\ Sound(server) /\ AsConfigured

\* A server just constructed has no sockets.
LEMMA NewServerIdle ==
  /\ NewServer \in ServerStates /\ Sockets(NewServer)
  /\ NewServer.running = FALSE
<1>1. /\ NewServer.running = FALSE /\ NewServer.listening = FALSE
      /\ NewServer.udp = FALSE
  BY DEF NewServer
<1>2. NewServer \in ServerStates
  BY DEF NewServer, ServerStates
<1> QED BY <1>1, <1>2 DEF Sockets

\* What AsConfigured says of one server.
LEMMA Configured ==
  ASSUME Inv, applied, NEW s \in Servers
  PROVE  /\ IF settings[s].enabled /\ s \notin status
            THEN HasSockets(server[s], settings[s]) ELSE HasNone(server[s])
         /\ settings[s].enabled \in BOOLEAN
<1>1. IF settings[s].enabled /\ s \notin status
      THEN server[s] = [ running |-> TRUE, tcp |-> settings[s].tcp,
                         port |-> settings[s].port,
                         listening |-> settings[s].tcp, udp |-> ~settings[s].tcp ]
      ELSE {server[s].running, server[s].listening, server[s].udp} = {FALSE}
  BY DEF Inv, AsConfigured
<1>2. settings[s].enabled /\ s \notin status => HasSockets(server[s], settings[s])
  BY <1>1 DEF HasSockets
<1>3. ~(settings[s].enabled /\ s \notin status) => HasNone(server[s])
  BY <1>1 DEF HasNone
<1>4. settings[s].enabled \in BOOLEAN
  BY DEF Inv, TypeOK, ConnectionSettings
<1> QED BY <1>2, <1>3, <1>4

-----------------------------------------------------------------------------
(* The operators on servers.                                               *)

\* Stopping a server touches it alone and leaves it without sockets.
LEMMA StoppedServer ==
  ASSUME NEW n, Sound(n), NEW s \in Servers
  PROVE  /\ Sound(Stopped(n, s))
         /\ Touches(n, Stopped(n, s), s)
         /\ HasNone(Stopped(n, s)[s])
<1> DEFINE m == Stopped(n, s)
<1>1. n \in [Servers -> ServerStates]
  BY DEF Sound
<1>2. m \in [Servers -> ServerStates] /\ HasNone(m[s]) /\ Touches(n, m, s)
  BY <1>1 DEF Stopped, ServerStates, HasNone, Touches
<1>3. Sockets(m[s])
  BY <1>2 DEF HasNone, Sockets
<1>4. \A t \in Servers : Sockets(m[t])
  BY <1>2, <1>3 DEF Sound, Touches
<1> QED BY <1>2, <1>4 DEF Sound

\* Starting a server gives it the socket that is asked for, or none.
LEMMA StartedServer ==
  ASSUME NEW n, Sound(n), NEW s \in Servers, NEW to \in ConnectionSettings,
         NEW ok \in BOOLEAN
  PROVE  /\ Sound(Started(n, s, to, ok))
         /\ Touches(n, Started(n, s, to, ok), s)
         /\ IF StartSucceeds(n, s, to, ok)
            THEN HasSockets(Started(n, s, to, ok)[s], to)
            ELSE HasNone(Started(n, s, to, ok)[s])
<1> DEFINE m == Started(n, s, to, ok)
           b == StartSucceeds(n, s, to, ok)
           r == [running |-> b, tcp |-> to.tcp, port |-> to.port,
                 listening |-> to.tcp /\ b, udp |-> ~to.tcp /\ b]
<1>1. /\ n \in [Servers -> ServerStates]
      /\ to.tcp \in BOOLEAN /\ to.port \in Nat
  BY DEF Sound, ConnectionSettings
<1>2. b \in BOOLEAN /\ (b => ValidPort(to.port))
  BY DEF StartSucceeds
<1>3. m = [n EXCEPT ![s] = r]
  BY DEF Started
<1> HIDE DEF m, b
<1>4. r \in ServerStates
  BY <1>1, <1>2 DEF ServerStates
<1>5. r.running = b /\ r.tcp = to.tcp /\ r.port = to.port
      /\ r.listening = (to.tcp /\ b) /\ r.udp = (~to.tcp /\ b)
  OBVIOUS
<1> HIDE DEF r
<1>6. m \in [Servers -> ServerStates] /\ m[s] = r /\ Touches(n, m, s)
  BY <1>1, <1>3, <1>4 DEF Touches
<1>7. Sockets(r)
  BY <1>1, <1>2, <1>5 DEF Sockets
<1>8. Sound(m)
  BY <1>6, <1>7 DEF Sound, Touches
<1>9. IF b THEN HasSockets(m[s], to) ELSE HasNone(m[s])
  BY <1>1, <1>2, <1>5, <1>6 DEF HasSockets, HasNone
<1> QED BY <1>6, <1>8, <1>9 DEF m, b

\* After InitializeNetworkServers a server is as its settings say, or the call
\* for it has failed.
LEMMA InitializedServer ==
  ASSUME NEW n, Sound(n), NEW s \in Servers, NEW ok \in BOOLEAN,
         settings \in [Servers -> ConnectionSettings]
  PROVE  /\ Sound(Initialized(n, s, ok))
         /\ Touches(n, Initialized(n, s, ok), s)
         /\ IF settings[s].enabled /\ ~Fails(n, s, ok)
            THEN HasSockets(Initialized(n, s, ok)[s], settings[s])
            ELSE HasNone(Initialized(n, s, ok)[s])
<1> DEFINE m == Initialized(n, s, ok)
           to == settings[s]
           k == Stopped(n, s)
<1>1. to \in ConnectionSettings /\ to.enabled \in BOOLEAN /\ to.tcp \in BOOLEAN
  BY DEF ConnectionSettings
<1>2. n[s] \in ServerStates /\ Sockets(n[s])
  BY DEF Sound
<1>3. CASE ToStart(n, s)
  <2>1. m = Started(k, s, to, ok)
    BY <1>3 DEF Initialized, ToStart
  <2>2. Sound(k) /\ Touches(n, k, s)
    BY StoppedServer
  <2>3. /\ Sound(m) /\ Touches(k, m, s)
        /\ IF StartSucceeds(k, s, to, ok) THEN HasSockets(m[s], to) ELSE HasNone(m[s])
    BY <1>1, <2>1, <2>2, StartedServer
  <2>4. Touches(n, m, s)
    BY <2>2, <2>3 DEF Touches
  <2>5. to.enabled /\ (Fails(n, s, ok) <=> ~StartSucceeds(k, s, to, ok))
    BY <1>3 DEF Fails, ToStart
  <2> QED BY <2>3, <2>4, <2>5
<1>4. CASE ~ToStart(n, s) /\ ~to.enabled /\ n[s].running
  <2>1. m = k
    BY <1>4 DEF Initialized
  <2> QED BY <1>4, <2>1, StoppedServer
<1>5. CASE ~ToStart(n, s) /\ ~(~to.enabled /\ n[s].running)
  <2>1. m = n /\ Touches(n, m, s) /\ ~Fails(n, s, ok)
    BY <1>5 DEF Initialized, Touches, Fails
  <2>2. to.enabled => HasSockets(m[s], to)
    BY <1>1, <1>2, <1>5, <2>1 DEF ToStart, HasSockets, Sockets, ServerStates
  <2>3. ~to.enabled => HasNone(m[s])
    BY <1>2, <1>5, <2>1 DEF HasNone, Sockets, ServerStates
  <2> QED BY <2>1, <2>2, <2>3
<1> QED BY <1>3, <1>4, <1>5

\* A start fails only for want of a valid port, of the socket, or because the
\* other server listens at the port.
LEMMA WhyItFails ==
  ASSUME NEW n, Sound(n), NEW s \in Servers, Fails(n, s, TRUE),
         settings \in [Servers -> ConnectionSettings]
  PROVE  /\ settings[s].enabled
         /\ \/ ~ValidPort(settings[s].port)
            \/ /\ settings[s].tcp
               /\ \E t \in Servers \ {s} : n[t].listening /\ n[t].port = settings[s].port
<1> DEFINE k == Stopped(n, s)
<1>1. Touches(n, k, s)
  BY StoppedServer
<1>2. settings[s].enabled /\ ~StartSucceeds(k, s, settings[s], TRUE)
  BY DEF Fails, ToStart
<1> HIDE DEF k
<1>3. \/ ~ValidPort(settings[s].port)
      \/ settings[s].tcp /\ ~Free(k, s, settings[s].port)
  BY <1>2 DEF StartSucceeds
<1> QED BY <1>1, <1>2, <1>3 DEF Free, Touches

\* A server that does not run has no sockets.
LEMMA IdleHasNone ==
  ASSUME NEW n, Sound(n), NEW s \in Servers, ~n[s].running
  PROVE  HasNone(n[s])
<1>1. n[s] \in ServerStates /\ Sockets(n[s])
  BY DEF Sound
<1> QED BY <1>1 DEF ServerStates, Sockets, HasNone

\* Stopping all servers keeps them sound.
LEMMA StoppedServers ==
  ASSUME NEW n, Sound(n)
  PROVE  Sound(StoppedAll(n))
<1> DEFINE m == IF n["NMEA0183"].running THEN Stopped(n, "NMEA0183") ELSE n
<1>1. "NMEA0183" \in Servers /\ "N2K" \in Servers
  BY DEF Servers
<1>2. Sound(m)
  BY <1>1, StoppedServer
<1> HIDE DEF m
<1>3. Sound(IF m["N2K"].running THEN Stopped(m, "N2K") ELSE m)
  BY <1>1, <1>2, StoppedServer
<1> QED BY <1>3 DEF StoppedAll, m

\* So it is for the destructor of one.
LEMMA DestroyedServer ==
  ASSUME NEW n, Sound(n), NEW s \in Servers
  PROVE  Sound(Destroyed(n, s))
<1> DEFINE m == IF n[s].running THEN Stopped(n, s) ELSE n
<1>1. Sound(m)
  BY StoppedServer
<1> HIDE DEF m
<1>2. NewServer \in ServerStates /\ Sockets(NewServer)
  BY NewServerIdle
<1>3. Sound([m EXCEPT ![s] = NewServer])
  BY <1>1, <1>2 DEF Sound
<1> QED BY <1>3 DEF Destroyed, m

-----------------------------------------------------------------------------
(* The steps.                                                              *)

\* What Sound says of types.
LEMMA SoundTypes ==
  ASSUME NEW n, Sound(n)
  PROVE  /\ n \in [Servers -> ServerStates]
         /\ \A s \in Servers : n[s].running => n[s].port >= 1024 /\ n[s].port <= 65535
<1>1. ASSUME NEW s \in Servers, n[s].running
      PROVE  n[s].port >= 1024 /\ n[s].port <= 65535
  BY <1>1 DEF Sound, Sockets, ValidPort
<1> QED BY <1>1 DEF Sound

\* The steps that leave settings and servers alone, or only stop servers.
LEMMA InvStep ==
  ASSUME Inv, Sound(server'),
         settings' \in [Servers -> ConnectionSettings],
         playing' \in BOOLEAN, applied' \in BOOLEAN, plugin' \in {"on", "off"},
         status' \subseteq Servers,
         applied' => AsConfigured'
  PROVE  Inv'
<1>1. TypeOK'
  BY SoundTypes DEF TypeOK
<1> QED BY <1>1 DEF Inv, AsConfigured

\* StartPlayback initializes the one server, then the other; each is then as its
\* settings say or named, and what was done for one is not undone by the other.
LEMMA StartPlaybackStep ==
  ASSUME Inv, NEW ok \in [Servers -> BOOLEAN], StartPlayback(ok)
  PROVE  Inv'
<1> DEFINE n == Initialized(server, "NMEA0183", ok["NMEA0183"])
           m == Initialized(n, "N2K", ok["N2K"])
           bad == {s \in Servers : Fails(IF s = "N2K" THEN n ELSE server, s, ok[s])}
<1>1. /\ server' = m /\ status' = bad /\ playing' = TRUE /\ applied' = TRUE
      /\ settings' = settings /\ plugin' = plugin
  BY DEF StartPlayback, UpdateNetworkStatus
<1>2. Servers = {"NMEA0183", "N2K"} /\ "NMEA0183" # "N2K"
  BY DEF Servers
<1>3. /\ Sound(server) /\ settings \in [Servers -> ConnectionSettings]
      /\ plugin \in {"on", "off"}
  BY DEF Inv, TypeOK
<1>4. ok["NMEA0183"] \in BOOLEAN /\ ok["N2K"] \in BOOLEAN
  BY <1>2
<1>5. /\ Sound(n)
      /\ IF settings["NMEA0183"].enabled /\ ~Fails(server, "NMEA0183", ok["NMEA0183"])
         THEN HasSockets(n["NMEA0183"], settings["NMEA0183"]) ELSE HasNone(n["NMEA0183"])
  BY <1>2, <1>3, <1>4, InitializedServer
<1> HIDE DEF n
<1>6. /\ Sound(m) /\ Touches(n, m, "N2K")
      /\ IF settings["N2K"].enabled /\ ~Fails(n, "N2K", ok["N2K"])
         THEN HasSockets(m["N2K"], settings["N2K"]) ELSE HasNone(m["N2K"])
  BY <1>2, <1>3, <1>4, <1>5, InitializedServer
<1> HIDE DEF m
<1>7. m["NMEA0183"] = n["NMEA0183"]
  BY <1>2, <1>6 DEF Touches
<1>8. \A s \in Servers : IF settings[s].enabled /\ s \notin bad
                         THEN HasSockets(m[s], settings[s]) ELSE HasNone(m[s])
  BY <1>2, <1>5, <1>6, <1>7
<1>9. bad \subseteq Servers
  OBVIOUS
<1> HIDE DEF bad
<1>10. AsConfigured'
  <2> SUFFICES ASSUME NEW s \in Servers
               PROVE  IF settings[s].enabled /\ s \notin bad
                      THEN m[s] = [ running |-> TRUE, tcp |-> settings[s].tcp,
                                    port |-> settings[s].port, listening |-> settings[s].tcp,
                                    udp |-> ~settings[s].tcp ]
                      ELSE {m[s].running, m[s].listening, m[s].udp} = {FALSE}
    BY <1>1 DEF AsConfigured
  <2>1. m[s] \in ServerStates
    BY <1>6 DEF Sound
  <2>2. m[s] = [ running |-> m[s].running, tcp |-> m[s].tcp, port |-> m[s].port,
                 listening |-> m[s].listening, udp |-> m[s].udp ]
    BY <2>1 DEF ServerStates
  <2> QED BY <1>8, <2>2 DEF HasSockets, HasNone
<1> QED BY <1>1, <1>3, <1>6, <1>9, <1>10, InvStep

\* The steps that start no server.  Settings that are changed, and a playback
\* that is stopped, end what is said of the last start.
LEMMA OtherSteps ==
  ASSUME Inv,
         \/ PausePlayback \/ StopPlayback \/ LoadFile \/ DeInit \/ LoadPlugin
         \/ \E s \in Servers, to \in Settings : ShowPreferencesDialog(s, to)
         \/ UNCHANGED vars
  PROVE  Inv'
<1>1. /\ Sound(server) /\ settings \in [Servers -> ConnectionSettings]
      /\ playing \in BOOLEAN /\ applied \in BOOLEAN
      /\ plugin \in {"on", "off"} /\ status \subseteq Servers /\ AsConfigured
  BY DEF Inv, TypeOK
<1>2. CASE PausePlayback \/ LoadPlugin \/ UNCHANGED vars
  <2>1. /\ server' = server /\ settings' = settings /\ status' = status
        /\ applied' = applied /\ playing' \in BOOLEAN /\ plugin' \in {"on", "off"}
    BY <1>1, <1>2 DEF PausePlayback, LoadPlugin, vars
  <2>2. AsConfigured' /\ Sound(server')
    BY <1>1, <2>1 DEF AsConfigured
  <2> QED BY <1>1, <2>1, <2>2, InvStep
<1>3. CASE StopPlayback \/ LoadFile \/ DeInit
  <2>1. /\ settings' = settings /\ playing' = FALSE /\ applied' = FALSE
        /\ plugin' \in {"on", "off"} /\ status' \subseteq Servers
    BY <1>1, <1>3 DEF StopPlayback, LoadFile, DeInit, UpdateNetworkStatus
  <2>2. "NMEA0183" \in Servers /\ "N2K" \in Servers
    BY DEF Servers
  <2>3. Sound(StoppedAll(server))
    BY <1>1, StoppedServers
  <2>4. Sound(server')
    <3>1. CASE StopPlayback \/ LoadFile
      BY <1>1, <2>3, <3>1 DEF StopPlayback, LoadFile
    <3>2. CASE DeInit
      BY <2>2, <2>3, <3>2, DestroyedServer DEF DeInit
    <3> QED BY <1>3, <3>1, <3>2
  <2> QED BY <1>1, <2>1, <2>4, InvStep
<1>4. ASSUME NEW s \in Servers, NEW to \in Settings, ShowPreferencesDialog(s, to)
      PROVE  Inv'
  <2> DEFINE now(t) == IF t = s THEN to ELSE settings[t]
  <2>1. settings' = [t \in Servers |-> [now(t) EXCEPT !.port = Offered(@)]]
    BY <1>4 DEF ShowPreferencesDialog
  <2>2. /\ server' = server /\ status' = status /\ playing' = playing /\ plugin' = plugin
        /\ applied' = (applied /\ settings' = settings)
    BY <1>4 DEF ShowPreferencesDialog
  <2>3. ASSUME NEW t \in Servers
        PROVE  [now(t) EXCEPT !.port = Offered(@)] \in ConnectionSettings
    <3>1. now(t) \in ConnectionSettings
      BY <1>1, NetworkAssumption
    <3> HIDE DEF now
    <3>2. Offered(now(t).port) \in Nat
      BY <3>1 DEF ConnectionSettings, Offered
    <3> QED BY <3>1, <3>2 DEF ConnectionSettings
  <2>4. settings' \in [Servers -> ConnectionSettings]
    BY <2>1, <2>3
  <2>5. applied' => AsConfigured'
    BY <1>1, <2>2 DEF AsConfigured
  <2>6. applied' \in BOOLEAN
    BY <2>2
  <2> QED BY <1>1, <2>2, <2>4, <2>5, <2>6, InvStep
<1> QED BY <1>2, <1>3, <1>4

\* If servers are as the settings say they should be, or do not run, and the
\* settings ask for nothing impossible, no start fails.
LEMMA NoneFails ==
  ASSUME Inv, Compatible, NEW ok \in [Servers -> BOOLEAN], ok = [s \in Servers |-> TRUE],
         StartPlayback(ok),
         applied \/ \A s \in Servers : ~server[s].running
  PROVE  /\ status' = {}
         /\ \A s \in Servers : server'[s].running = settings[s].enabled
<1> DEFINE n == Initialized(server, "NMEA0183", ok["NMEA0183"])
<1>1. Servers = {"NMEA0183", "N2K"} /\ "NMEA0183" # "N2K"
  BY DEF Servers
<1>2. ok["NMEA0183"] = TRUE /\ ok["N2K"] = TRUE
  BY <1>1
<1>3. /\ Sound(server) /\ settings \in [Servers -> ConnectionSettings]
      /\ \A s \in Servers : settings[s].enabled \in BOOLEAN
  BY DEF Inv, TypeOK, ConnectionSettings
<1>4. \A s \in Servers : settings[s].enabled => ValidPort(settings[s].port)
  BY DEF Compatible
<1>5. ASSUME NEW s \in Servers, server[s].listening
      PROVE  settings[s].enabled /\ settings[s].tcp /\ server[s].port = settings[s].port
  <2>1. server[s] \in ServerStates /\ Sockets(server[s])
    BY <1>3 DEF Sound
  <2>2. server[s].running
    BY <1>5, <2>1 DEF Sockets, ServerStates
  <2>3. applied
    BY <2>2
  <2> QED BY <1>5, <2>3, Configured DEF HasSockets, HasNone
<1>6. ~Fails(server, "NMEA0183", TRUE)
  <2> SUFFICES ASSUME Fails(server, "NMEA0183", TRUE) PROVE FALSE
    OBVIOUS
  <2>1. /\ settings["NMEA0183"].enabled
        /\ \/ ~ValidPort(settings["NMEA0183"].port)
           \/ /\ settings["NMEA0183"].tcp
              /\ \E t \in Servers \ {"NMEA0183"} :
                   server[t].listening /\ server[t].port = settings["NMEA0183"].port
    BY <1>1, <1>3, WhyItFails
  <2> QED BY <1>1, <1>4, <1>5, <2>1 DEF Compatible
<1>7. /\ Sound(n)
      /\ IF settings["NMEA0183"].enabled
         THEN HasSockets(n["NMEA0183"], settings["NMEA0183"]) ELSE HasNone(n["NMEA0183"])
  BY <1>1, <1>2, <1>3, <1>6, InitializedServer
<1> HIDE DEF n
<1>8. ~Fails(n, "N2K", TRUE)
  <2> SUFFICES ASSUME Fails(n, "N2K", TRUE) PROVE FALSE
    OBVIOUS
  <2>1. /\ settings["N2K"].enabled
        /\ \/ ~ValidPort(settings["N2K"].port)
           \/ /\ settings["N2K"].tcp
              /\ \E t \in Servers \ {"N2K"} : n[t].listening /\ n[t].port = settings["N2K"].port
    BY <1>1, <1>3, <1>7, WhyItFails
  <2>2. \/ ~ValidPort(settings["N2K"].port)
        \/ /\ settings["N2K"].tcp
           /\ n["NMEA0183"].listening /\ n["NMEA0183"].port = settings["N2K"].port
    BY <1>1, <2>1
  <2>3. n["NMEA0183"].listening =>
          /\ settings["NMEA0183"].enabled /\ settings["NMEA0183"].tcp
          /\ n["NMEA0183"].port = settings["NMEA0183"].port
    BY <1>7 DEF HasSockets, HasNone
  <2> QED BY <1>1, <1>4, <2>1, <2>2, <2>3 DEF Compatible
<1>9. status' = {}
  <2>1. status' = {s \in Servers : Fails(IF s = "N2K" THEN n ELSE server, s, ok[s])}
    BY DEF StartPlayback, UpdateNetworkStatus, n
  <2>2. \A s \in Servers : ok[s] = TRUE
    OBVIOUS
  <2>3. \A s \in Servers : ~Fails(IF s = "N2K" THEN n ELSE server, s, ok[s])
    BY <1>1, <1>6, <1>8, <2>2
  <2> QED BY <2>1, <2>3
<1>10. AsConfigured' /\ applied' /\ settings' = settings
  BY StartPlaybackStep DEF Inv, StartPlayback
<1>11. ASSUME NEW s \in Servers
       PROVE  server'[s].running = settings[s].enabled
  <2>1. IF settings[s].enabled
        THEN server'[s] = [ running |-> TRUE, tcp |-> settings[s].tcp,
                            port |-> settings[s].port,
                            listening |-> settings[s].tcp, udp |-> ~settings[s].tcp ]
        ELSE {server'[s].running, server'[s].listening, server'[s].udp} = {FALSE}
    BY <1>9, <1>10 DEF AsConfigured
  <2>2. settings[s].enabled => server'[s].running = TRUE
    BY <2>1
  <2>3. ~settings[s].enabled => server'[s].running = FALSE
    BY <2>1
  <2> QED BY <1>3, <2>2, <2>3
<1> QED BY <1>9, <1>11

\* What a server sends after a start: to the port of its settings, or nowhere.
LEMMA SendsToItsPort ==
  ASSUME Inv, applied, NEW s \in Servers, settings[s].enabled
  PROVE  SentBy(server, s) = {settings[t].port : t \in {s} \ (status \union Tcp)}
<1>1. IF s \notin status THEN HasSockets(server[s], settings[s]) ELSE HasNone(server[s])
  BY Configured
<1>2. settings[s].tcp \in BOOLEAN
  BY DEF Inv, TypeOK, ConnectionSettings
<1>3. CASE s \notin status /\ ~settings[s].tcp
  <2>1. SentBy(server, s) = {settings[s].port}
    BY <1>1, <1>3 DEF SentBy, HasSockets
  <2>2. {s} \ (status \union Tcp) = {s}
    BY <1>3 DEF Tcp
  <2> QED BY <2>1, <2>2
<1>4. CASE s \in status \/ settings[s].tcp
  <2>1. SentBy(server, s) = {}
    BY <1>1, <1>2, <1>4 DEF SentBy, HasSockets, HasNone
  <2>2. {s} \ (status \union Tcp) = {}
    BY <1>4 DEF Tcp
  <2> QED BY <2>1, <2>2
<1> QED BY <1>2, <1>3, <1>4

\* A text is sent by a server that is enabled, or not at all.
LEMMA SentForEnabled ==
  ASSUME NEW text \in Texts
  PROVE  Datagrams(text) \subseteq
           {server[s].port : s \in {t \in Servers : settings[t].enabled}}
<1>1. ASSUME NEW s \in Servers, settings[s].enabled
      PROVE  SentBy(server, s) \subseteq
               {server[t].port : t \in {u \in Servers : settings[u].enabled}}
  BY <1>1 DEF SentBy
<1>2. "NMEA0183" \in Servers /\ "N2K" \in Servers
  BY DEF Servers
<1>3. CASE text # "other" /\ settings["NMEA0183"].enabled
  BY <1>1, <1>2, <1>3 DEF Datagrams
<1>4. CASE ~(text # "other" /\ settings["NMEA0183"].enabled)
  <2>1. CASE text = "N2K" /\ ~settings["NMEA0183"].enabled /\ settings["N2K"].enabled
    BY <1>1, <1>2, <1>4, <2>1 DEF Datagrams
  <2>2. CASE ~(text = "N2K" /\ ~settings["NMEA0183"].enabled /\ settings["N2K"].enabled)
    BY <1>4, <2>2 DEF Datagrams
  <2> QED BY <2>1, <2>2
<1> QED BY <1>3, <1>4

-----------------------------------------------------------------------------
(* The theorems.                                                           *)

\* The plugin starts with servers that have no sockets.
LEMMA InitInv == Init => Inv
<1> SUFFICES ASSUME Init PROVE Inv
  OBVIOUS
<1>1. NewServer \in ServerStates /\ Sockets(NewServer) /\ NewServer.running = FALSE
  BY NewServerIdle
<1>2. server \in [Servers -> ServerStates] /\ \A s \in Servers : server[s] = NewServer
  BY <1>1 DEF Init
<1>3. Sound(server)
  BY <1>1, <1>2 DEF Sound
<1>4. settings \in [Servers -> ConnectionSettings]
  BY NetworkAssumption DEF Init
<1>5. TypeOK
  <2>1. /\ playing = FALSE /\ applied = FALSE /\ plugin = "on" /\ status = {}
    BY DEF Init
  <2>2. \A s \in Servers :
          server[s].running => server[s].port >= 1024 /\ server[s].port <= 65535
    BY <1>3, SoundTypes
  <2>3. /\ playing \in BOOLEAN /\ applied \in BOOLEAN
        /\ plugin \in {"on", "off"} /\ status \subseteq Servers
    BY <2>1
  <2> QED BY <1>2, <1>4, <2>2, <2>3 DEF TypeOK
<1>6. AsConfigured
  BY DEF Init, AsConfigured
<1> QED BY <1>3, <1>5, <1>6 DEF Inv

\* Every step preserves the invariant.
LEMMA NextInv == Inv /\ [Next]_vars => Inv'
<1> SUFFICES ASSUME Inv, [Next]_vars PROVE Inv'
  OBVIOUS
<1>1. CASE \E ok \in [Servers -> BOOLEAN] : StartPlayback(ok)
  BY <1>1, StartPlaybackStep
<1>2. CASE \/ PausePlayback \/ StopPlayback \/ LoadFile \/ DeInit \/ LoadPlugin
           \/ \E s \in Servers, to \in Settings : ShowPreferencesDialog(s, to)
           \/ UNCHANGED vars
  BY <1>2, OtherSteps
<1> QED BY <1>1, <1>2 DEF Next

\* The invariant holds in every state, whatever settings there are and whichever
\* starts fail.
THEOREM Invariant == Spec => []Inv
<1> QED BY InitInv, NextInv, PTL DEF Spec

\* The servers have the types they should have: what runs has a port that is
\* allowed, also after an edited configuration and failed starts.
THEOREM TypeCorrect == Spec => []TypeOK
<1>1. Inv => TypeOK
  BY DEF Inv
<1> QED BY <1>1, Invariant, PTL

\* After StartPlayback servers are as their settings say or the status names
\* them: InitializeNetworkServers reaches this from every state of the servers.
THEOREM AsConfiguredAlways == Spec => []AsConfigured
<1>1. Inv => AsConfigured
  BY DEF Inv
<1> QED BY <1>1, Invariant, PTL

\* What is played goes out to the ports that the preferences name, and to no
\* other: the servers do not keep a port that was set for an earlier playback.
THEOREM GoesOutAlways == Spec => []GoesOutAsConfigured
<1>1. Inv => GoesOutAsConfigured
  <2> SUFFICES ASSUME Inv PROVE GoesOutAsConfigured
    OBVIOUS
  <2>1. "NMEA0183" \in Servers /\ "N2K" \in Servers
    BY DEF Servers
  <2>2. ASSUME applied, settings["NMEA0183"].enabled, NEW text \in Texts \ {"other"}
        PROVE  Datagrams(text) =
                 {settings[s].port : s \in {"NMEA0183"} \ (status \union Tcp)}
    <3>1. Datagrams(text) = SentBy(server, "NMEA0183")
      BY <2>2 DEF Datagrams
    <3> QED BY <2>1, <2>2, <3>1, SendsToItsPort
  <2>3. ASSUME applied, ~settings["NMEA0183"].enabled, settings["N2K"].enabled
        PROVE  Datagrams("N2K") =
                 {settings[s].port : s \in {"N2K"} \ (status \union Tcp)}
    <3>1. Datagrams("N2K") = SentBy(server, "N2K")
      BY <2>3 DEF Datagrams
    <3> QED BY <2>1, <2>3, <3>1, SendsToItsPort
  <2> QED BY <2>2, <2>3, SentForEnabled DEF GoesOutAsConfigured
<1> QED BY <1>1, Invariant, PTL

\* Starts that have failed are made good by the next one.
THEOREM PlayingAgainAlwaysHeals == Spec => PlayingAgainHeals
<1> DEFINE ok == [s \in Servers |-> TRUE]
           P == /\ StartPlayback(ok) /\ Compatible
                /\ applied \/ \A s \in Servers : ~server[s].running
                => /\ status' = {}
                   /\ \A s \in Servers : server'[s].running = settings[s].enabled
<1>1. ok \in [Servers -> BOOLEAN]
  OBVIOUS
<1> HIDE DEF ok
<1>2. Inv => P
  BY <1>1, NoneFails DEF ok
<1>3. Inv /\ [Next]_vars => [P]_vars
  BY <1>2
<1> QED BY <1>3, Invariant, PTL DEF Spec, PlayingAgainHeals, P, ok

=============================================================================
