----------------------------- MODULE MCDownloads -----------------------------
(***************************************************************************)
(* One run for the parts a download is made of, which share no state: the  *)
(* rate limiter, the export of a sheet, the store of the command line, the *)
(* references between documents and the translation of one into Markdown.  *)
(* A behaviour of the run is one of any of the five.                       *)
(***************************************************************************)
EXTENDS RateLimiter, ExportTask, JsonStore, DocReferences, DocParser, TLC

VARIABLE part   \* whose behaviour it is

downloadVars == <<vars, exportVars, jsonVars, docState, parserState, part>>

RateRests   == UNCHANGED vars
ExportRests == UNCHANGED exportVars
StoreRests  == UNCHANGED jsonVars
DocRests    == UNCHANGED docState
ParserRests == UNCHANGED parserState

(* The parts that rest have one initial state.                             *)
DownloadsInit ==
  /\ part \in {"rate", "export", "store", "references", "parser"}
  /\ Init /\ ExportInit /\ DocInit
  /\ JsonInit /\ (part # "store" => json.state = "none")
  /\ ParserInit /\ (part # "parser" => \A b \in Blocks : kind[b] = "text" /\ parent[b] = Page)

DownloadsNext ==
  /\ \/ part = "rate" /\ Next /\ ExportRests /\ StoreRests /\ DocRests /\ ParserRests
     \/ part = "export" /\ ExportNext /\ RateRests /\ StoreRests /\ DocRests /\ ParserRests
     \/ part = "store" /\ JsonNext /\ RateRests /\ ExportRests /\ DocRests /\ ParserRests
     \/ part = "references" /\ DocNext /\ RateRests /\ ExportRests /\ StoreRests /\ ParserRests
     \/ part = "parser" /\ ParserNext /\ RateRests /\ ExportRests /\ StoreRests /\ DocRests
  /\ UNCHANGED part

(* Fairness is asked of the part that moves; no thread holds a lock in the *)
(* others.                                                                 *)
DownloadsSpec ==
  /\ DownloadsInit /\ [][DownloadsNext]_downloadVars
  /\ WF_vars(part = "rate" /\ Tick) /\ HolderRuns
  /\ WF_exportVars(part = "export" /\ Download)

(* All variables have their types, those of the parts that rest included.  *)
DownloadsTypeOK == TypeOK /\ ExportTypeOK /\ JsonTypeOK /\ DocTypeOK /\ ParserTypeOK

(* The instance: four documents, of which the sync lists two, with cycles  *)
(* of references; syncs with either store, with and without cleaning, and  *)
(* one that takes everything.                                              *)
SomeCites ==
  ("A" :> <<"B", "C">>) @@ ("B" :> <<"C", "A">>) @@ ("C" :> <<"D", "A">>) @@ ("D" :> <<"C", "B">>)

SomeSyncs ==
  [name : {"sync"}, backend : {"json", "sqlite"}, full : {FALSE}, clean : BOOLEAN]
  \cup {[name |-> "sync", backend |-> "json", full |-> TRUE, clean |-> FALSE]}
=============================================================================
