------------------------------ MODULE Services ------------------------------
(***************************************************************************)
(* The scenes of the service's workings: the connection pool,              *)
(* unsubscribing, the database files, the event stream, the token file.    *)
(***************************************************************************)
EXTENDS Scene

CONSTANTS       \* each scene's parameters: a record with a field per constant of its module
    ForPool, ForUnsubscribe, ForFiles, ForStream, ForTokens

-----------------------------------------------------------------------------
P == INSTANCE ConnPool WITH
    Account <- ForPool.Account, Caller <- ForPool.Caller, MaxDrop <- ForPool.MaxDrop, conns <- x1, pool <- x2,
    link <- x3, owner <- x4, th <- x5, drops <- x6

U == INSTANCE Unsubscribe WITH
    Letter <- ForUnsubscribe.Letter, Sender <- ForUnsubscribe.Sender, From <- ForUnsubscribe.From,
    Https <- ForUnsubscribe.Https, OneClickHeader <- ForUnsubscribe.OneClickHeader,
    Signed <- ForUnsubscribe.Signed, MailtoURI <- ForUnsubscribe.MailtoURI, Caller <- ForUnsubscribe.Caller,
    Scopes <- ForUnsubscribe.Scopes, MaxDone <- ForUnsubscribe.MaxDone, MaxFaults <- ForUnsubscribe.MaxFaults,
    inbox <- x1, named <- x2, fresh <- x3, latest <- x4, call <- x5, digest <- x6, shown <- x7, done <- x8,
    logged <- x9, taken <- x10, shuffled <- x11, told <- x12, faults <- x13

D == INSTANCE DbFiles WITH
    Proc <- ForFiles.Proc, Server <- ForFiles.Server, Object <- ForFiles.Object,
    MaxWrites <- ForFiles.MaxWrites, MaxDeaths <- ForFiles.MaxDeaths, key <- x1, file <- x2, wal <- x3,
    index <- x4, backups <- x5, cache <- x6, proc <- x7, enc <- x8, written <- x9, intruded <- x10,
    deaths <- x11

B == INSTANCE EventStream WITH
    Publisher <- ForStream.Publisher, Client <- ForStream.Client, Buffer <- ForStream.Buffer,
    MaxEvents <- ForStream.MaxEvents, sseChans <- x1, channel <- x2, written <- x3, conn <- x4, turn <- x5,
    due <- x6, dropped <- x7

T == INSTANCE TokenFile WITH
    Process <- ForTokens.Process, Setup <- ForTokens.Setup, Rotates <- ForTokens.Rotates,
    MaxTokens <- ForTokens.MaxTokens, MaxDeaths <- ForTokens.MaxDeaths, file <- x1, given <- x2, live <- x3,
    accepted <- x4, work <- x5, spoilt <- x6, deaths <- x7

\* What the modules assume of their constants.
ASSUME ServiceAssumption ==
    P!ParamAssumption /\ U!ParamAssumption /\ D!ParamAssumption /\ B!ParamAssumption /\ T!ParamAssumption

-----------------------------------------------------------------------------
Init ==
    /\ scene \in Scenes
    /\ \/ At("pool") /\ P!Init /\ Unused6
       \/ At("unsubscribe") /\ U!Init /\ Unused13
       \/ At("files") /\ D!Init /\ Unused11
       \/ At("stream") /\ B!Init /\ Unused7
       \/ At("tokens") /\ T!Init /\ Unused7

Next ==
    \/ At("pool") /\ P!Next /\ UNCHANGED Beyond6
    \/ At("unsubscribe") /\ U!Next /\ UNCHANGED Beyond13
    \/ At("files") /\ D!Next /\ UNCHANGED Beyond11
    \/ At("stream") /\ B!Next /\ UNCHANGED Beyond7
    \/ At("tokens") /\ T!Next /\ UNCHANGED Beyond7

Spec == Init /\ [][Next]_services

-----------------------------------------------------------------------------
(* The properties: each is stated and explained in the scene's module.     *)

\* Every module's variables keep their types.
TypeOK ==
    /\ At("pool") => P!TypeOK
    /\ At("unsubscribe") => U!TypeOK
    /\ At("files") => D!TypeOK
    /\ At("stream") => B!TypeOK
    /\ At("tokens") => T!TypeOK

\* pool.go: a client is closed only under its connection's own lock, and no
\* caller is handed a connection that reconnectOnce has given up.
PoolSafe == [][At("pool") => P!ClosesUnused /\ P!MapIsCurrent']_services

\* unsubscribe.go: nothing happens to a sender nobody asked about, and what
\* took effect is on record.
UnsubscribeRight == At("unsubscribe") => U!OnlyAsAsked /\ U!Accounted

\* db.go, migrate.go, encrypt.go: no stored row is lost, and a process works
\* on files that fit its key and its version.
DbFilesRight == At("files") => D!NothingLost /\ D!FilesFit

\* bus.go, server.go: no event passes a client that is there.
NoneMissed == At("stream") => B!NoneMissed

\* xoauth2.go: the token file never makes another browser sign-in necessary.
FileStaysGood == At("tokens") => T!FileStaysGood
=============================================================================
