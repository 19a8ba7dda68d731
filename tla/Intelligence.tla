---------------------------- MODULE Intelligence ----------------------------
(***************************************************************************)
(* The scenes of the index: the scan of headers and the knowledge graph.   *)
(***************************************************************************)
EXTENDS Scene

CONSTANTS       \* each scene's parameters: a record with a field per constant of its module
    ForScan, ForGraph

-----------------------------------------------------------------------------
S == INSTANCE IntelScan WITH
    Folder <- ForScan.Folder, Listing <- ForScan.Listing, Placed <- ForScan.Placed, Attr <- ForScan.Attr,
    Mail <- ForScan.Mail, Header <- ForScan.Header, Address <- ForScan.Address, Own <- ForScan.Own,
    NoMail <- ForScan.NoMail, NoFolder <- ForScan.NoFolder, BatchSize <- ForScan.BatchSize,
    MaxGap <- ForScan.MaxGap, MismatchAfter <- ForScan.MismatchAfter, AuthMinPasses <- ForScan.AuthMinPasses,
    MaxUID <- ForScan.MaxUID, MaxChanges <- ForScan.MaxChanges, box <- x1, listed <- x2, delivered <- x3,
    rescued <- x4, changes <- x5, scan <- x6, locscan <- x7, index <- x8, senders <- x9, anomalies <- x10,
    threads <- x11, sc <- x12

G == INSTANCE Knowledge WITH
    Mail <- ForGraph.Mail, Owner <- ForGraph.Owner, Own <- ForGraph.Own, From <- ForGraph.From,
    People <- ForGraph.People, Before <- ForGraph.Before, Org <- ForGraph.Org, Talk <- ForGraph.Talk,
    Thread <- ForGraph.Thread, Topics <- ForGraph.Topics, Letters <- ForGraph.Letters, Text <- ForGraph.Text,
    Stated <- ForGraph.Stated, MaxCc <- ForGraph.MaxCc, TagBatch <- ForGraph.TagBatch, Reach <- ForGraph.Reach,
    PerTick <- ForGraph.PerTick, StaleAfter <- ForGraph.StaleAfter, MaxNow <- ForGraph.MaxNow,
    MaxFaults <- ForGraph.MaxFaults, now <- x1, cached <- x2, enriched <- x3, indexed <- x4, tagDone <- x5,
    readDone <- x6, graph <- x7, tick <- x8, heard <- x9, calls <- x10, faults <- x11

\* What the modules assume of their constants.
ASSUME IndexAssumption == S!ScanAssumption /\ G!ParamAssumption

-----------------------------------------------------------------------------
IndexInit ==
    /\ scene \in Scenes
    /\ \/ At("scan") /\ S!Init /\ Unused12
       \/ At("graph") /\ G!Init /\ Unused11

IndexNext ==
    \/ At("scan") /\ S!Next /\ UNCHANGED Beyond12
    \/ At("graph") /\ G!Next /\ UNCHANGED Beyond11

IndexSpec == IndexInit /\ [][IndexNext]_services

-----------------------------------------------------------------------------
(* The properties: each is stated and explained in the scene's module.     *)

\* Every module's variables keep their types.
IndexTypeOK ==
    /\ At("scan") => S!TypeOK
    /\ At("graph") => G!TypeOK

\* scanner.go, store.go, locations.go: each message counts once, trust is a
\* rescue's, a conversation ends with its newest message.
IndexRight == At("scan") => S!CountedOnce /\ S!TrustIsRescue /\ S!ThreadIsLatest

\* kg.go: a relation weighs what speaks for it, and a body is read once.
GraphIsEvidence == At("graph") => G!EvidenceOnce /\ G!ReadOnce
=============================================================================
