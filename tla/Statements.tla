------------------------------ MODULE Statements ------------------------------
(***************************************************************************)
(* The update of the companies' statements, src/fundamentum/lib/cvm.js:    *)
(* one run fetches for each company in turn the list of its statements,    *)
(* takes over those its file already has, downloads the others, and writes *)
(* the file anew.                                                          *)
(*                                                                         *)
(* Everything hangs on one chain of callbacks, so there is one place,      *)
(* `pc`.  A run starts with nothing but the files.  An action is what      *)
(* happens between two answers the program waits for.  Statements are      *)
(* their codes; what is in them, the archives in dl/ and the files that    *)
(* are unpacked from them are left out.                                    *)
(***************************************************************************)
EXTENDS Naturals, SequencesExt

CONSTANTS
    Companies,      \* the length of cvmcolist.json
    MaxCode         \* bound: the statements that a company ever files

ASSUME CompaniesAssumption == Companies \in Nat \ {0}
ASSUME CodeAssumption == MaxCode \in Nat

VARIABLES
    site,           \* the statements in force, the latest year first
    filed,          \* how many a company has filed
    file,           \* database/companies/<ccvm>.json
    pc,             \* what the run waits for
    co,             \* the company whose turn it is
    last,           \* the last one of this run
    codeList,       \* its statements, as the site listed them
    dfps,           \* those that are in memory
    calm,           \* requests, archives and the process fail no more
    shown           \* every list a company was ever shown with

world  == <<site, filed>>
memory == <<co, last, codeList, dfps>>
vars == <<world, file, pc, memory, calm, shown>>

Company == 1 .. Companies
Code    == 1 .. MaxCode
Place   == {"off", "codes", "list", "each", "download", "extract", "parse",
            "write", "stuck"}

(* Absent, cut off in the middle of a write, or whole.                     *)
File == [state: {"absent", "cut", "whole"}, dfps: Seq(Code)]

Init ==
    /\ site = [c \in Company |-> <<>>] /\ filed = [c \in Company |-> 0]
    /\ file = [c \in Company |-> [state |-> "absent", dfps |-> <<>>]]
    /\ pc = "off" /\ co = 1 /\ last = 1 /\ codeList = <<>> /\ dfps = <<>>
    /\ calm = FALSE
    /\ shown = [c \in Company |-> {<<>>}]

-----------------------------------------------------------------------------
(* The end of a run, or of a company. *)

(* Every error is handed on to the end of the chain.                       *)
Fail == pc' = "off" /\ UNCHANGED memory

(* A callback that is never called: nothing is left to wait for.           *)
NeverCalled == pc' = "stuck" /\ UNCHANGED memory

(* Mutant: the last company is not noticed.                                *)
NextBeyond ==
    /\ pc' = "codes" /\ co' = co + 1
    /\ UNCHANGED <<last, codeList, dfps>>

NextCompany ==
    /\ \/ co < last /\ pc' = "codes" /\ co' = co + 1
       \/ co = last /\ pc' = "off" /\ UNCHANGED co
    /\ UNCHANGED <<last, codeList, dfps>>

-----------------------------------------------------------------------------
(* The chain of callbacks. *)

(* updateAllCompanies: all of them, or the one the command line names.     *)
Start(first, final) ==
    /\ pc = "off"
    /\ pc' = "codes" /\ co' = first /\ last' = final
    /\ codeList' = <<>> /\ dfps' = <<>>
    /\ UNCHANGED <<world, file, calm, shown>>

UpdateAll == Start(1, Companies)

UpdateOne == \E c \in Company : Start(c, c)

(* requestNegociationCode: a page without codes is a company without them, *)
(* and updateCompany leaves it alone.                                      *)
Codes ==
    /\ pc = "codes"
    /\ \/ pc' = "list" /\ UNCHANGED memory
       \/ ~calm /\ (NextCompany \/ Fail)
    /\ UNCHANGED <<world, file, calm, shown>>

(* requestDFPList: any other page is an empty list.                        *)
List ==
    /\ pc = "list"
    /\ \/ /\ \/ codeList' = site[co]
             \/ ~calm /\ codeList' = <<>>
          /\ dfps' = <<>> /\ pc' = "each"
          /\ shown' = [shown EXCEPT ![co] = @ \union {codeList'}]
          /\ UNCHANGED <<co, last>>
       \/ ~calm /\ Fail /\ UNCHANGED shown
    /\ UNCHANGED <<world, file, calm>>

NextCode == codeList[Len(dfps) + 1]

(* Mutant: statements are put in front.                                    *)
PushFront(code) == dfps' = <<code>> \o dfps

Push(code) == dfps' = Append(dfps, code)

(* Mutant: a missing file is an error like any other.                      *)
ReadableIfThere == file[co].state = "whole"

(* A file that is missing is as good as an empty one; what is cut off does *)
(* not parse.                                                              *)
Readable == file[co].state # "cut"

(* requestDownloadDFPList: the file is read again for each statement.      *)
Each ==
    /\ pc = "each" /\ Len(dfps) < Len(codeList)
    /\ \/ ~Readable /\ Fail
       \/ /\ Readable /\ Contains(file[co].dfps, NextCode)
          /\ Push(NextCode) /\ UNCHANGED <<pc, co, last, codeList>>
       \/ /\ Readable /\ ~Contains(file[co].dfps, NextCode)
          /\ pc' = "download" /\ UNCHANGED memory
    /\ UNCHANGED <<world, file, calm, shown>>

(* requestDownloadDfp logs an error, and waits for a close that does not   *)
(* come.                                                                   *)
Download ==
    /\ pc = "download"
    /\ \/ pc' = "extract" /\ UNCHANGED memory
       \/ ~calm /\ NeverCalled
    /\ UNCHANGED <<world, file, calm, shown>>

(* extractAllFiles waits in vain for an archive without statements.        *)
Extract ==
    /\ pc = "extract"
    /\ \/ pc' = "parse" /\ UNCHANGED memory
       \/ ~calm /\ (Fail \/ NeverCalled)
    /\ UNCHANGED <<world, file, calm, shown>>

(* parseAllDocuments: a document that is missing or malformed is an error. *)
Parse ==
    /\ pc = "parse"
    /\ \/ pc' = "each" /\ Push(NextCode) /\ UNCHANGED <<co, last, codeList>>
       \/ ~calm /\ Fail
    /\ UNCHANGED <<world, file, calm, shown>>

(* All are there: fs.writeFile begins by emptying the file, if it can be   *)
(* opened.                                                                 *)
WriteFile ==
    /\ pc = "each" /\ Len(dfps) = Len(codeList)
    /\ \/ /\ pc' = "write"
          /\ file' = [file EXCEPT ![co] = [state |-> "cut", dfps |-> <<>>]]
          /\ UNCHANGED memory
       \/ ~calm /\ Fail /\ UNCHANGED file
    /\ UNCHANGED <<world, calm, shown>>

Written ==
    /\ pc = "write"
    /\ \/ /\ file' = [file EXCEPT ![co] = [state |-> "whole", dfps |-> dfps]]
          /\ NextCompany
       \/ ~calm /\ Fail /\ UNCHANGED file
    /\ UNCHANGED <<world, calm, shown>>

Chain ==
    \/ Codes \/ List \/ Each \/ Download \/ Extract \/ Parse
    \/ WriteFile \/ Written

-----------------------------------------------------------------------------
(* The rest of the world. *)

(* node ends when nothing is left to wait for.                             *)
Exit ==
    /\ pc = "stuck" /\ pc' = "off"
    /\ UNCHANGED <<world, file, memory, calm, shown>>

(* The process ends, also by an archive that cannot be unpacked.           *)
Crash ==
    /\ pc \notin {"off", "stuck"} /\ ~calm
    /\ pc' = "off"
    /\ UNCHANGED <<world, file, memory, calm, shown>>

(* A statement is filed for a new year, or in place of an earlier one.     *)
Publish ==
    \E c \in Company :
        /\ filed[c] < MaxCode
        /\ filed' = [filed EXCEPT ![c] = @ + 1]
        /\ \/ site' = [site EXCEPT ![c] = <<filed[c] + 1>> \o @]
           \/ \E i \in DOMAIN site[c] : site' = [site EXCEPT ![c][i] = filed[c] + 1]
        /\ UNCHANGED <<file, pc, memory, calm, shown>>

Calm == ~calm /\ calm' = TRUE /\ UNCHANGED <<world, file, pc, memory, shown>>

Next == UpdateAll \/ UpdateOne \/ Chain \/ Exit \/ Crash \/ Publish \/ Calm

Spec == Init /\ [][Next]_vars

(* The process goes on while something answers, and all companies are      *)
(* updated again and again.                                                *)
FairSpec == Spec /\ SF_vars(UpdateAll) /\ WF_vars(Chain) /\ WF_vars(Exit)

-----------------------------------------------------------------------------
(* Properties. *)

TypeOK ==
    /\ site \in [Company -> Seq(Code)] /\ filed \in [Company -> 0 .. MaxCode]
    /\ file \in [Company -> File]
    /\ pc \in Place /\ co \in Company /\ last \in Company
    /\ codeList \in Seq(Code) /\ dfps \in Seq(Code)
    /\ calm \in BOOLEAN
    /\ shown \in [Company -> SUBSET Seq(Code)]

(* A whole file is as the site listed the company at one time: each        *)
(* statement once, the latest first (database.js:206 takes the first for   *)
(* the base year), none of an earlier version among those of a later one,  *)
(* however many runs it took to fetch them.                                *)
FilesAreOneList ==
    \A c \in Company : file[c].state = "whole" => file[c].dfps \in shown[c]

(* When failures have come to an end, every company's file becomes and     *)
(* stays what the site lists, up to the first file that a write left cut:  *)
(* an update of all companies never gets beyond that one.                  *)
Current(c) == file[c].state = "whole" /\ file[c].dfps = site[c]

FilesRecover ==
    <>calm => <>[](\A c \in Company :
                       \/ \E d \in 1 .. c : file[d].state = "cut"
                       \/ Current(c))
=============================================================================
