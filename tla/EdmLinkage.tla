------------------------------ MODULE EdmLinkage ------------------------------
(***************************************************************************)
(* backend/app/api/admin.py and services/treaty_metadata.py: the treaty    *)
(* list and the map from treaties to EDM databases, two JSON files that    *)
(* every request reads and rewrites as a whole, without a lock.  The       *)
(* endpoints run on worker threads, except import_csv, which runs on the   *)
(* event loop without awaiting once its body has arrived.                  *)
(*                                                                         *)
(* write_text opens the file, which empties it, and then writes at offset  *)
(* 0; each is one step.  A text is abstracted to the map it begins with    *)
(* and its length, counted in links: links are taken to be equally long.   *)
(***************************************************************************)
EXTENDS Integers, FiniteSets

CONSTANTS Clients,   (* requests that may be in progress at once           *)
          Editors,   (* those that may set links                           *)
          Treaties,  (* FS display ids                                     *)
          Edms,      (* links: (server, EDM database), not both missing    *)
          MayCrash,  (* whether the process may be killed                  *)
          Nothing    (* "no link", "no text"                               *)

ASSUME LinkAssumptions ==
  /\ Editors \subseteq Clients
  /\ IsFiniteSet(Treaties) /\ Treaties # {}
  /\ Nothing \notin Edms
  /\ MayCrash \in BOOLEAN

VARIABLES
  treatyFile,  (* the treaties listed by treaty_metadata.json, or Nothing  *)
  linkFile,    (* edm_linkage.json                                         *)
  at,          (* at[r]: where request r's handler is                      *)
  op,          (* op[r]: the endpoint it calls                             *)
  target,      (* target[r]: the treaty of a put                           *)
  edm,         (* edm[r]: the link of a put                                *)
  links,       (* links[r]: the map in the handler's local variable        *)
  rows,        (* rows[r]: the treaties it read or was given to import     *)
  answer,      (* answer[r]: its last response                             *)
  stored,      (* history: the map that was last written                   *)
  seen         (* history: seen[r][t], what t was linked to since r began  *)

files   == <<treatyFile, linkFile, stored>>
request == <<op, target, edm>>
linkVars == <<files, at, request, links, rows, answer, seen>>

-----------------------------------------------------------------------------
LinkMaps == [Treaties -> Edms \cup {Nothing}]
NoLinks == [t \in Treaties |-> Nothing]

(* The length of a map's JSON text: that of the empty map is not 0.        *)
Size(m) == 1 + Cardinality({t \in Treaties : m[t] # Nothing})

Longer(a, b) == IF a > b THEN a ELSE b

Text(m) == [links |-> m, size |-> Size(m)]
Emptied == [links |-> NoLinks, size |-> 0]

(* A write at offset 0 leaves the end of a longer text behind it.          *)
WrittenOver(text, m) == [links |-> m, size |-> Longer(text.size, Size(m))]

(* Mutant of Parses: an empty file is taken for an empty map.              *)
ParsesOrEmpty(text) == text.size \in {0, Size(text.links)}

(* json.loads: neither an empty text nor one with extra data is JSON.      *)
Parses(text) == text.size = Size(text.links)

Updated(m, t, e) == [m EXCEPT ![t] = e]

(* import_csv keeps the event loop until it answers.                       *)
LoopFree == \A r \in Clients : op[r] # "import"

AnyTreaty == CHOOSE t \in Treaties : TRUE
NoAnswer == [code |-> 0, rows |-> {}, links |-> NoLinks]

-----------------------------------------------------------------------------
LinkInit ==
  /\ treatyFile \in SUBSET Treaties
  /\ \E m \in LinkMaps : stored = m /\ linkFile = Text(m)
  /\ at = [r \in Clients |-> "idle"]
  /\ op = [r \in Clients |-> "list"]
  /\ target = [r \in Clients |-> AnyTreaty]
  /\ edm = [r \in Clients |-> Nothing]
  /\ links = [r \in Clients |-> NoLinks]
  /\ rows = [r \in Clients |-> {}]
  /\ answer = [r \in Clients |-> NoAnswer]
  /\ seen = [r \in Clients |-> [t \in Treaties |-> {}]]

Proceed(r, label) == at' = [at EXCEPT ![r] = label]

Begin(r, o, label) ==
  /\ at[r] = "idle"
  /\ op' = [op EXCEPT ![r] = o]
  /\ answer' = [answer EXCEPT ![r] = NoAnswer]
  /\ seen' = [seen EXCEPT ![r] = [t \in Treaties |-> {stored[t]}]]
  /\ Proceed(r, label)
  /\ UNCHANGED files

(* The handler returns: 200, 404 or 500.                                   *)
Answer(r, code) ==
  /\ answer' = [answer EXCEPT ![r] =
       [code |-> code, rows |-> rows[r], links |-> IF code = 200 THEN linkFile.links ELSE NoLinks]]
  /\ at' = [at EXCEPT ![r] = "idle"]
  /\ op' = [op EXCEPT ![r] = "list"]
  /\ target' = [target EXCEPT ![r] = AnyTreaty]
  /\ edm' = [edm EXCEPT ![r] = Nothing]
  /\ links' = [links EXCEPT ![r] = NoLinks]
  /\ rows' = [rows EXCEPT ![r] = {}]
  /\ seen' = [seen EXCEPT ![r] = [t \in Treaties |-> {}]]
  /\ UNCHANGED files

List(r) ==
  /\ Begin(r, "list", "viewRows")
  /\ UNCHANGED <<target, edm, links, rows>>

Put(r, t, e) ==
  /\ r \in Editors
  /\ Begin(r, "put", "check")
  /\ target' = [target EXCEPT ![r] = t]
  /\ edm' = [edm EXCEPT ![r] = e]
  /\ UNCHANGED <<links, rows>>

BulkSave(r, m) ==
  /\ r \in Editors
  /\ Begin(r, "bulk", "open")
  /\ links' = [links EXCEPT ![r] = m]
  /\ UNCHANGED <<target, edm, rows>>

Import(r, parsed) ==
  /\ LoopFree
  /\ parsed # {}
  /\ Begin(r, "import", "openTreaties")
  /\ rows' = [rows EXCEPT ![r] = parsed]
  /\ UNCHANGED <<target, edm, links>>

-----------------------------------------------------------------------------
(* update_link up to save_linkage                                          *)

CheckTreaty(r) ==
  /\ at[r] = "check"
  /\ treatyFile # Nothing /\ target[r] \in treatyFile
  /\ Proceed(r, "load")
  /\ UNCHANGED <<files, request, links, rows, answer, seen>>

TreatyUnknown(r) ==
  /\ at[r] = "check"
  /\ treatyFile # Nothing /\ target[r] \notin treatyFile
  /\ Answer(r, 404)

LoadLinks(r) ==
  /\ at[r] = "load"
  /\ Parses(linkFile)
  /\ links' = [links EXCEPT ![r] = Updated(linkFile.links, target[r], edm[r])]
  /\ Proceed(r, "open")
  /\ UNCHANGED <<files, request, rows, answer, seen>>

(* save_linkage: open(..., "w"), then the write.                           *)
OpenLinks(r) ==
  /\ at[r] = "open"
  /\ linkFile' = Emptied
  /\ Proceed(r, "write")
  /\ UNCHANGED <<treatyFile, stored, request, links, rows, answer, seen>>

WriteLinks(r) ==
  /\ at[r] = "write"
  /\ linkFile' = WrittenOver(linkFile, links[r])
  /\ stored' = links[r]
  /\ seen' = [q \in Clients |->
       IF at[q] = "idle" THEN seen[q] ELSE [t \in Treaties |-> seen[q][t] \cup {links[r][t]}]]
  /\ Proceed(r, "viewRows")
  /\ UNCHANGED <<treatyFile, request, links, rows, answer>>

(* save_treaty_rows: open(..., "w"), then the write.                       *)
OpenTreaties(r) ==
  /\ at[r] = "openTreaties"
  /\ treatyFile' = Nothing
  /\ Proceed(r, "writeTreaties")
  /\ UNCHANGED <<linkFile, stored, request, links, rows, answer, seen>>

WriteTreaties(r) ==
  /\ at[r] = "writeTreaties"
  /\ treatyFile' = rows[r]
  /\ Proceed(r, "viewRows")
  /\ UNCHANGED <<linkFile, stored, request, links, rows, answer, seen>>

(* joined_view                                                             *)
ViewRows(r) ==
  /\ at[r] = "viewRows"
  /\ treatyFile # Nothing
  /\ rows' = [rows EXCEPT ![r] = treatyFile]
  /\ Proceed(r, "viewLinks")
  /\ UNCHANGED <<files, request, links, answer, seen>>

(* A put looks its own treaty up in the rows: StopIteration when an import *)
(* has dropped it meanwhile.                                               *)
ViewLinks(r) ==
  /\ at[r] = "viewLinks"
  /\ Parses(linkFile)
  /\ Answer(r, IF op[r] = "put" /\ target[r] \notin rows[r] THEN 500 ELSE 200)

(* JSONDecodeError                                                         *)
ReadFails(r) ==
  /\ \/ at[r] \in {"check", "viewRows"} /\ treatyFile = Nothing
     \/ at[r] \in {"load", "viewLinks"} /\ ~Parses(linkFile)
  /\ Answer(r, 500)

(* The process is killed and started again: only the files are left.       *)
Crash ==
  /\ MayCrash
  /\ at' = [r \in Clients |-> "idle"]
  /\ op' = [r \in Clients |-> "list"]
  /\ target' = [r \in Clients |-> AnyTreaty]
  /\ edm' = [r \in Clients |-> Nothing]
  /\ links' = [r \in Clients |-> NoLinks]
  /\ rows' = [r \in Clients |-> {}]
  /\ answer' = [r \in Clients |-> NoAnswer]
  /\ seen' = [r \in Clients |-> [t \in Treaties |-> {}]]
  /\ UNCHANGED files

-----------------------------------------------------------------------------
Step(r) ==
  \/ CheckTreaty(r) \/ TreatyUnknown(r) \/ LoadLinks(r)
  \/ OpenLinks(r) \/ WriteLinks(r)
  \/ OpenTreaties(r) \/ WriteTreaties(r)
  \/ ViewRows(r) \/ ViewLinks(r) \/ ReadFails(r)

Arrival(r) ==
  \/ List(r)
  \/ \E t \in Treaties, e \in Edms \cup {Nothing} : Put(r, t, e)
  \/ \E m \in LinkMaps : BulkSave(r, m)
  \/ \E parsed \in SUBSET Treaties : Import(r, parsed)

LinkNext ==
  \/ \E r \in Clients : Arrival(r) \/ Step(r)
  \/ Crash

LinkSpec == LinkInit /\ [][LinkNext]_linkVars

-----------------------------------------------------------------------------
Labels == {"idle", "check", "load", "open", "write", "openTreaties",
           "writeTreaties", "viewRows", "viewLinks"}

LinkTypeOK ==
  /\ treatyFile \in (SUBSET Treaties) \cup {Nothing}
  /\ linkFile \in [links : LinkMaps, size : Nat]
  /\ stored \in LinkMaps
  /\ at \in [Clients -> Labels]
  /\ op \in [Clients -> {"list", "put", "bulk", "import"}]
  /\ target \in [Clients -> Treaties]
  /\ edm \in [Clients -> Edms \cup {Nothing}]
  /\ links \in [Clients -> LinkMaps]
  /\ rows \in [Clients -> SUBSET Treaties]
  /\ answer \in [Clients -> [code : {0, 200, 404, 500}, rows : SUBSET Treaties, links : LinkMaps]]
  /\ seen \in [Clients -> [Treaties -> SUBSET (Edms \cup {Nothing})]]

(* An update can only undo what was saved while it was in progress: every  *)
(* link it is about to write back for another treaty was current at some   *)
(* moment since it began.  In particular no torn text is taken for a map,  *)
(* which would clear every other link.                                     *)
LostLinksAreConcurrent ==
  \A r \in Clients :
    op[r] = "put" /\ at[r] \in {"open", "write"} =>
      \A t \in Treaties \ {target[r]} : links[r][t] \in seen[r][t]

(* A page that is answered shows, for each treaty, a link that was current *)
(* while the request was in progress.                                      *)
ViewsAreCurrent ==
  [][\A r \in Clients :
       at[r] = "viewLinks" /\ answer'[r].code = 200 =>
         \A t \in answer'[r].rows : answer'[r].links[t] \in seen[r][t]]_linkVars

(* Imports do not overlap: the list an import is answered with is the one  *)
(* it imported.                                                            *)
ImportsShowThemselves ==
  \A r \in Clients : op[r] = "import" /\ at[r] = "viewRows" => treatyFile = rows[r]

(* "Update one programme's EDM linkage." (admin.py:150): a put changes the *)
(* stored link of its own treaty only.  True of a sole editor.             *)
PutsChangeOneLink ==
  [][\A r \in Clients :
       op[r] = "put" /\ at[r] = "write" /\ at'[r] = "viewRows" =>
         \A t \in Treaties \ {target[r]} : stored'[t] = stored[t]]_linkVars
==============================================================================
