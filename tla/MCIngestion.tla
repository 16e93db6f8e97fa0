---------------------------- MODULE MCIngestion ----------------------------
(***************************************************************************)
(* Instances of Ingestion for TLC.  Payloads a and b are different bundles  *)
(* that contain the same sample, c fails verification, and d is a verified  *)
(* bundle whose manifest lists one raw path twice.                          *)
(***************************************************************************)
EXTENDS Ingestion, TLC

CONSTANTS t1, t2, t3

MCContent ==
    ("a" :> [sha |-> "da", sid |-> "sa", id |-> "ia", samples |-> {"x", "y"},
             raw |-> <<"r1", "r2">>, verified |-> TRUE])
 @@ ("b" :> [sha |-> "db", sid |-> "sb", id |-> "ib", samples |-> {"y"},
             raw |-> <<"r1">>, verified |-> TRUE])
 @@ ("c" :> [sha |-> "dc", sid |-> "sc", id |-> "ic", samples |-> {},
             raw |-> <<>>, verified |-> FALSE])
 @@ ("d" :> [sha |-> "dd", sid |-> "sd", id |-> "id", samples |-> {"z"},
             raw |-> <<"r1", "r1">>, verified |-> TRUE])

MCMaxRequestBytes == 2

(* The request cloudeyes submit sends for payload p. *)
Good(p) ==
    [route |-> TRUE, auth |-> TRUE, chunked |-> FALSE, lengthGiven |-> TRUE,
     length |-> MCMaxRequestBytes, payload |-> p, media |-> TRUE,
     key |-> MCContent[p].sha, sha |-> MCContent[p].sha, id |-> MCContent[p].id]

(* One bundle, posted again and again. *)
OneBundle == {Good("a")}

(* Two bundles that compete for a sample. *)
TwoBundles == {Good("a"), Good("b")}

(* With a bundle that fails its own constraints and one that does not verify. *)
AllBundles == {Good(p) : p \in {"a", "b", "c", "d"}}

(* One defect per check of do_POST and ingest, next to well-formed requests. *)
Malformed ==
    LET q == Good("a") IN
    { [q EXCEPT !.route = FALSE], [q EXCEPT !.auth = FALSE],
      [q EXCEPT !.chunked = TRUE], [q EXCEPT !.lengthGiven = FALSE],
      [q EXCEPT !.length = -1], [q EXCEPT !.length = 0],
      [q EXCEPT !.length = MCMaxRequestBytes + 1], [q EXCEPT !.media = FALSE],
      [q EXCEPT !.key = None], [q EXCEPT !.sha = None], [q EXCEPT !.id = None],
      [q EXCEPT !.key = "db"], [q EXCEPT !.key = "db", !.sha = "db"],
      [q EXCEPT !.id = "ib"] }

MixedRequests == Malformed \cup TwoBundles \cup {Good("c")}

ThreadSymmetry == Permutations(Threads)
=============================================================================
