----------------------------- MODULE DaemonStart -----------------------------
(***************************************************************************)
(* A daemon coming up and going down beside another one (cmd/prukka        *)
(* runDaemon; control: server.go, token.go, ipc_unix.go, ipctls.go).  No   *)
(* lock is taken: the control token, the socket path, the IPC keypair, the *)
(* HTTP port and the media tree are claimed one after the other, each by   *)
(* one file or socket operation, and a process may be killed between any   *)
(* two.  A token or keypair is named by the mint that made it, 0 is none.  *)
(***************************************************************************)
EXTENDS Naturals, FiniteSets

CONSTANTS Daemons, \* processes started by the user or the service manager
          MaxMint, \* bound: secrets minted
          MaxDeath \* bound: processes killed

VARIABLES stage,     \* stage[d]: how far daemon d is
          retried,   \* retried[d]: d already reclaimed an interrupted mint
          mine,      \* mine[d]: the token d serves with, or is writing
          pair,      \* pair[d]: the keypair d minted or loaded
          tokenFile, \* the mint whose file is at the token path
          filled,    \* mints whose file carries the whole token
          torn,      \* mints whose file carries part of it
          keyFile, certFile, \* the mints the two PEM files come from
          sock,      \* the daemon whose listener is at the socket path
          port,      \* the daemon that holds the HTTP port
          media,     \* whose outputs the media tree holds
          minted, deaths,
          overlap    \* a daemon may start while another one is neither up nor down
vars == <<stage, retried, mine, pair, tokenFile, filled, torn, keyFile, certFile,
          sock, port, media, minted, deaths, overlap>>

Nobody == "nobody"
Secrets == <<tokenFile, filled, torn>>
Keypair == <<keyFile, certFile>>
Claims == <<sock, port, media>>
Rest == <<deaths, overlap>>

Init ==
    /\ stage = [d \in Daemons |-> "down"] /\ retried = [d \in Daemons |-> FALSE]
    /\ mine = [d \in Daemons |-> 0] /\ pair = [d \in Daemons |-> 0]
    /\ tokenFile = 0 /\ filled = {} /\ torn = {} /\ keyFile = 0 /\ certFile = 0
    /\ sock = Nobody /\ port = Nobody /\ media = Nobody
    /\ minted = 0 /\ deaths = 0 /\ overlap \in BOOLEAN

At(d, s) == stage[d] = s
To(d, s) == stage' = [stage EXCEPT ![d] = s]
Mint == minted < MaxMint /\ minted' = minted + 1

Listening == {"tls", "key", "cert", "load", "http", "reset", "serving"}
Answers(d) == d # Nobody /\ stage[d] \in Listening

Start(d) ==
    /\ At(d, "down") /\ To(d, "token")
    /\ overlap \/ \A e \in Daemons \ {d} : stage[e] \in {"down", "serving"}
    /\ retried' = [retried EXCEPT ![d] = FALSE]
    /\ mine' = [mine EXCEPT ![d] = 0] /\ pair' = [pair EXCEPT ![d] = 0]
    /\ UNCHANGED <<Secrets, Keypair, Claims, minted, Rest>>

-----------------------------------------------------------------------------
(* LoadOrCreateToken *)

\* readToken: a whole token is taken, no file is minted, anything else waits.
ReadToken(d) ==
    /\ At(d, "token")
    /\ \/ tokenFile \in filled /\ mine' = [mine EXCEPT ![d] = tokenFile] /\ To(d, "probe")
       \/ tokenFile = 0 /\ To(d, "create") /\ UNCHANGED mine
       \/ tokenFile # 0 /\ tokenFile \notin filled /\ To(d, "wait") /\ UNCHANGED mine
    /\ UNCHANGED <<retried, pair, Secrets, Keypair, Claims, minted, Rest>>

\* createTokenFile with O_EXCL: somebody else's file is waited for.
CreateToken(d) ==
    /\ At(d, "create")
    /\ IF tokenFile = 0
         THEN /\ Mint /\ tokenFile' = minted + 1
              /\ mine' = [mine EXCEPT ![d] = minted + 1] /\ To(d, "write")
         ELSE To(d, "wait") /\ UNCHANGED <<tokenFile, mine, minted>>
    /\ UNCHANGED <<retried, pair, filled, torn, Keypair, Claims, Rest>>

\* persistToken writes through its handle; when that fails it removes whatever
\* file is at the path, and the start fails.
PersistToken(d) ==
    /\ At(d, "write")
    /\ \/ filled' = filled \union {mine[d]} /\ To(d, "probe") /\ UNCHANGED tokenFile
       \/ tokenFile' = 0 /\ To(d, "down") /\ UNCHANGED filled
    /\ UNCHANGED <<retried, mine, pair, torn, Keypair, Claims, minted, Rest>>

\* waitForToken.  The window is a second: it never closes on a live creator.
WaitForToken(d) ==
    /\ At(d, "wait")
    /\ \/ tokenFile \in filled /\ mine' = [mine EXCEPT ![d] = tokenFile] /\ To(d, "probe")
       \/ /\ tokenFile \notin filled
          /\ \A e \in Daemons : At(e, "write") => mine[e] # tokenFile
          /\ \/ tokenFile \in torn /\ To(d, "down")  \* diagnoseToken: corrupt
             \/ tokenFile \notin torn /\ To(d, IF retried[d] THEN "down" ELSE "reclaim")
          /\ UNCHANGED mine
    /\ UNCHANGED <<retried, pair, Secrets, Keypair, Claims, minted, Rest>>

\* The abandoned name is reclaimed once: removed by path, then loaded again.
ReclaimAgainst(d, file) ==
    /\ At(d, "reclaim") /\ To(d, "token")
    /\ tokenFile' = file /\ retried' = [retried EXCEPT ![d] = TRUE]
    /\ UNCHANGED <<mine, pair, filled, torn, Keypair, Claims, minted, Rest>>
Reclaim(d) == ReclaimAgainst(d, 0)

-----------------------------------------------------------------------------
(* listenIPC and the keypair *)

\* A Probe that would ask no daemon.
ProbeAnyway(d) ==
    /\ At(d, "probe") /\ To(d, "unlink")
    /\ UNCHANGED <<retried, mine, pair, Secrets, Keypair, Claims, minted, Rest>>

\* clearStaleSocket: a listener that answers is a running daemon.
Probe(d) ==
    /\ At(d, "probe") /\ To(d, IF Answers(sock) THEN "down" ELSE "unlink")
    /\ UNCHANGED <<retried, mine, pair, Secrets, Keypair, Claims, minted, Rest>>

Unlink(d) ==
    /\ At(d, "unlink") /\ To(d, "listen") /\ sock' = Nobody
    /\ UNCHANGED <<retried, mine, pair, Secrets, Keypair, port, media, minted, Rest>>

\* A Listen that would clear the media before the port is won.
ListenAndReset(d) ==
    /\ At(d, "listen")
    /\ IF sock = Nobody THEN sock' = d /\ To(d, "tls") /\ media' = Nobody
                        ELSE UNCHANGED <<sock, media>> /\ To(d, "down")
    /\ UNCHANGED <<retried, mine, pair, Secrets, Keypair, port, minted, Rest>>

Listen(d) ==
    /\ At(d, "listen")
    /\ IF sock = Nobody THEN sock' = d /\ To(d, "tls")
                        ELSE UNCHANGED sock /\ To(d, "down")
    /\ UNCHANGED <<retried, mine, pair, Secrets, Keypair, port, media, minted, Rest>>

\* ensureIPCKeypair: minted unless both files exist; ipc_tls may be off.
EnsureKeypair(d) ==
    /\ At(d, "tls")
    /\ \/ keyFile # 0 /\ certFile # 0 /\ To(d, "load") /\ UNCHANGED <<pair, minted>>
       \/ /\ keyFile = 0 \/ certFile = 0
          /\ Mint /\ pair' = [pair EXCEPT ![d] = minted + 1] /\ To(d, "key")
       \/ To(d, "http") /\ UNCHANGED <<pair, minted>>
    /\ UNCHANGED <<retried, mine, Secrets, Keypair, Claims, Rest>>

\* publishSecret, twice: each file appears by a rename.
PublishKey(d) ==
    /\ At(d, "key") /\ keyFile' = pair[d] /\ To(d, "cert")
    /\ UNCHANGED <<retried, mine, pair, Secrets, certFile, Claims, minted, Rest>>
PublishCert(d) ==
    /\ At(d, "cert") /\ certFile' = pair[d] /\ To(d, "load")
    /\ UNCHANGED <<retried, mine, pair, Secrets, keyFile, Claims, minted, Rest>>

\* Closing a listener unlinks the socket path, whoever's socket is there.
CloseIPC == sock' = Nobody

\* LoadX509KeyPair refuses a key that is not the certificate's.
LoadKeypair(d) ==
    /\ At(d, "load")
    /\ IF keyFile = certFile
         THEN pair' = [pair EXCEPT ![d] = certFile] /\ To(d, "http") /\ UNCHANGED sock
         ELSE CloseIPC /\ To(d, "down") /\ UNCHANGED pair
    /\ UNCHANGED <<retried, mine, Secrets, Keypair, port, media, minted, Rest>>

-----------------------------------------------------------------------------
(* The HTTP port, the media tree, and the way down *)

BindHTTP(d) ==
    /\ At(d, "http")
    /\ IF port = Nobody THEN port' = d /\ To(d, "reset") /\ UNCHANGED sock
                        ELSE CloseIPC /\ To(d, "down") /\ UNCHANGED port
    /\ UNCHANGED <<retried, mine, pair, Secrets, Keypair, media, minted, Rest>>

\* resetMediaRoot, the hook that runs once both endpoints are held.
ResetMedia(d) ==
    /\ At(d, "reset")
    /\ \/ media' = Nobody /\ To(d, "serving") /\ UNCHANGED <<sock, port>>
       \/ CloseIPC /\ port' = Nobody /\ To(d, "down") /\ UNCHANGED media
    /\ UNCHANGED <<retried, mine, pair, Secrets, Keypair, minted, Rest>>

\* The lanes write the media tree, still so while they drain.
WriteMedia(d) ==
    /\ stage[d] \in {"serving", "closing", "draining"} /\ media' = d
    /\ UNCHANGED <<stage, retried, mine, pair, Secrets, Keypair, sock, port, minted, Rest>>

\* stopServers: the socket goes first; the port once the RPCs have drained or
\* their time is up; engine and lanes drain besides.
Stop(d) ==
    /\ At(d, "serving") /\ To(d, "closing") /\ CloseIPC
    /\ UNCHANGED <<retried, mine, pair, Secrets, Keypair, port, media, minted, Rest>>
ShutdownHTTP(d) ==
    /\ At(d, "closing") /\ To(d, "draining") /\ port' = Nobody
    /\ UNCHANGED <<retried, mine, pair, Secrets, Keypair, sock, media, minted, Rest>>
Stopped(d) ==
    /\ At(d, "draining") /\ To(d, "down")
    /\ UNCHANGED <<retried, mine, pair, Secrets, Keypair, Claims, minted, Rest>>

\* Killed: the port is free, the socket file stays, a write may be half done.
Die(d) ==
    /\ stage[d] # "down" /\ deaths < MaxDeath
    /\ deaths' = deaths + 1 /\ To(d, "down")
    /\ port' = IF port = d THEN Nobody ELSE port
    /\ torn' \in IF At(d, "write") THEN {torn, torn \union {mine[d]}} ELSE {torn}
    /\ UNCHANGED <<retried, mine, pair, tokenFile, filled, Keypair, sock, media, minted, overlap>>

\* The operator does what a corrupt token's message asks for.
RemoveCorrupt ==
    /\ tokenFile \in torn /\ \A d \in Daemons : At(d, "down")
    /\ tokenFile' = 0
    /\ UNCHANGED <<stage, retried, mine, pair, filled, torn, Keypair, Claims, minted, Rest>>

Next ==
    \/ \E d \in Daemons :
         \/ Start(d) \/ ReadToken(d) \/ CreateToken(d) \/ PersistToken(d)
         \/ WaitForToken(d) \/ Reclaim(d) \/ Probe(d) \/ Unlink(d) \/ Listen(d)
         \/ EnsureKeypair(d) \/ PublishKey(d) \/ PublishCert(d) \/ LoadKeypair(d)
         \/ BindHTTP(d) \/ ResetMedia(d) \/ WriteMedia(d) \/ Stop(d)
         \/ ShutdownHTTP(d) \/ Stopped(d) \/ Die(d)
    \/ RemoveCorrupt

Spec == Init /\ [][Next]_vars
-----------------------------------------------------------------------------
TypeOK ==
    /\ stage \in [Daemons -> Listening \union
          {"down", "token", "create", "write", "wait", "reclaim", "probe",
           "unlink", "listen", "closing", "draining"}]
    /\ mine \in [Daemons -> 0 .. MaxMint] /\ pair \in [Daemons -> 0 .. MaxMint]
    /\ tokenFile \in 0 .. minted /\ filled \subseteq 1 .. minted /\ filled \cap torn = {}
    /\ sock \in Daemons \union {Nobody} /\ port \in Daemons \union {Nobody}

\* However starts race, at most one daemon is past both binds, where the media
\* tree is wiped and written.
SoleServer ==
    \A d, e \in Daemons :
        stage[d] \in {"reset", "serving"} /\ stage[e] \in {"reset", "serving"} => d = e

\* The outputs of a serving daemon are never wiped by another one's start.
ServedMediaIsKept == [][\A d \in Daemons : At(d, "serving") /\ media = d => media' # Nobody]_vars

\* A serving daemon is the one clients reach and authenticate with: the socket
\* at the path, the token in the file and the certificate in the file are its.
Reachable(d) == /\ sock = d /\ tokenFile = mine[d] /\ mine[d] \in filled
                /\ pair[d] # 0 => pair[d] = certFile /\ pair[d] = keyFile
ServerIsReachable == \A d \in Daemons : At(d, "serving") => Reachable(d)

\* Without overlapping starts, kills and interrupted mints included, it is; and
\* no kill leaves a key and a certificate that will never load again.
OrderlyStarts ==
    ~overlap => /\ ServerIsReachable
                /\ keyFile # 0 /\ certFile # 0 => keyFile = certFile
=============================================================================
