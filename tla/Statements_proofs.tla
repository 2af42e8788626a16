-------------------------- MODULE Statements_proofs --------------------------
(* Proofs about the update of the statements, for any number of companies  *)
(* and of statements.                                                      *)
EXTENDS Statements, TLAPS

(* The run is at a company whose list has arrived.                         *)
Listed   == pc \in {"each", "download", "extract", "parse", "write"}
Fetching == pc \in {"download", "extract", "parse"}

(* What is in memory is the beginning of one list the site showed, also    *)
(* when some of it came from the file and the rest from the site.          *)
FirstOfTheList ==
    Listed =>
        /\ codeList \in shown[co]
        /\ Len(dfps) <= Len(codeList)
        /\ \A i \in 1 .. Len(dfps) : dfps[i] = codeList[i]

(* A statement is only fetched while one is missing, and nothing is        *)
(* written before all are there.                                           *)
Complete ==
    /\ Fetching => Len(dfps) < Len(codeList)
    /\ pc = "write" => Len(dfps) = Len(codeList)

IInv == TypeOK /\ FilesAreOneList /\ co <= last /\ FirstOfTheList /\ Complete

-----------------------------------------------------------------------------
(* The end of a run or of a company leaves nothing to be said of memory.   *)
LEMMA EndOfList ==
    ASSUME IInv, Fail \/ NeverCalled \/ NextCompany
    PROVE  /\ pc' \in {"off", "stuck", "codes"} /\ codeList' = codeList /\ dfps' = dfps
           /\ co' \in Company /\ last' = last /\ co' <= last'
<1>1. co \in 1 .. Companies /\ last \in 1 .. Companies /\ co <= last
  BY DEF IInv, TypeOK, Company
<1>2. Companies \in Nat
  BY CompaniesAssumption
<1>3. CASE Fail \/ NeverCalled
  BY <1>1, <1>3 DEF Fail, NeverCalled, memory, Company
<1>4. CASE NextCompany
  BY <1>1, <1>2, <1>4 DEF NextCompany, Company
<1> QED
  BY <1>3, <1>4

(* A step that ends there keeps the invariant, if it leaves the files.     *)
LEMMA EndKeeps ==
    ASSUME IInv, Fail \/ NeverCalled \/ NextCompany, UNCHANGED <<world, file, calm, shown>>
    PROVE  IInv'
<1>1. /\ pc' \in {"off", "stuck", "codes"} /\ codeList' = codeList /\ dfps' = dfps
      /\ co' \in Company /\ last' = last /\ co' <= last'
  BY EndOfList
<1>2. TypeOK'
  BY <1>1 DEF IInv, TypeOK, world, Place
<1> QED
  BY <1>1, <1>2 DEF IInv, FilesAreOneList, FirstOfTheList, Complete, Listed, Fetching

(* One more statement, the next on the list.                               *)
LEMMA PushKeeps ==
    ASSUME IInv, Listed, Len(dfps) < Len(codeList), Push(NextCode),
           UNCHANGED <<codeList, co, last, world, file, calm, shown>>, pc' = "each"
    PROVE  IInv'
<1>1. /\ codeList \in Seq(Code) /\ dfps \in Seq(Code)
      /\ Len(codeList) \in Nat /\ Len(dfps) \in Nat
  BY DEF IInv, TypeOK
<1>2. Len(dfps) + 1 \in 1 .. Len(codeList)
  BY <1>1
<1>3. NextCode \in Code /\ NextCode = codeList[Len(dfps) + 1]
  BY <1>1, <1>2 DEF NextCode
<1>4. dfps' = Append(dfps, NextCode)
  BY DEF Push
<1> DEFINE new == NextCode
<1> HIDE DEF new
<1>5. new \in Code /\ dfps' = Append(dfps, new) /\ new = codeList[Len(dfps) + 1]
  BY <1>3, <1>4 DEF new
<1>6. /\ dfps' \in Seq(Code)
      /\ Len(dfps') = Len(dfps) + 1
      /\ \A i \in 1 .. Len(dfps) : dfps'[i] = dfps[i]
      /\ dfps'[Len(dfps) + 1] = new
  BY <1>1, <1>5
<1>7. \A i \in 1 .. Len(dfps') : dfps'[i] = codeList[i]
  <2> SUFFICES ASSUME NEW i \in 1 .. Len(dfps) + 1 PROVE dfps'[i] = codeList[i]
    BY <1>6
  <2>1. CASE i \in 1 .. Len(dfps)
    BY <1>6, <2>1 DEF IInv, FirstOfTheList
  <2>2. CASE i = Len(dfps) + 1
    BY <1>5, <1>6, <2>2
  <2> QED
    BY <1>1, <2>1, <2>2
<1>8. Len(dfps') <= Len(codeList)
  BY <1>1, <1>6
<1>9. TypeOK'
  BY <1>6 DEF IInv, TypeOK, world, Place
<1>10. FirstOfTheList'
  BY <1>7, <1>8 DEF IInv, FirstOfTheList, Listed
<1> QED
  BY <1>9, <1>10 DEF IInv, FilesAreOneList, Complete, Fetching

-----------------------------------------------------------------------------
(* The steps of the chain. *)

LEMMA StartKeeps ==
    ASSUME IInv, UpdateAll \/ UpdateOne
    PROVE  IInv'
<1>1. PICK first \in Company, final \in Company : first <= final /\ Start(first, final)
  <2>1. Companies \in Nat /\ 1 <= Companies
    BY CompaniesAssumption
  <2>2. 1 \in Company /\ Companies \in Company /\ \A c \in Company : c <= c
    BY <2>1 DEF Company
  <2> QED
    BY <2>1, <2>2 DEF UpdateAll, UpdateOne
<1>2. <<>> \in Seq(Code)
  OBVIOUS
<1>3. TypeOK'
  BY <1>1, <1>2 DEF Start, IInv, TypeOK, world, Place
<1> QED
  BY <1>1, <1>3 DEF Start, IInv, FilesAreOneList, FirstOfTheList, Complete, Listed, Fetching

LEMMA CodesKeeps ==
    ASSUME IInv, Codes
    PROVE  IInv'
<1>1. CASE pc' = "list" /\ UNCHANGED memory
  <2>1. TypeOK'
    BY <1>1 DEF Codes, IInv, TypeOK, world, memory, Place
  <2> QED
    BY <1>1, <2>1 DEF Codes, IInv, memory, FilesAreOneList, FirstOfTheList, Complete,
                      Listed, Fetching
<1>2. CASE NextCompany \/ Fail
  BY <1>2, EndKeeps DEF Codes
<1> QED
  BY <1>1, <1>2 DEF Codes

LEMMA ListKeeps ==
    ASSUME IInv, List
    PROVE  IInv'
<1>1. CASE Fail /\ UNCHANGED shown
  BY <1>1, EndKeeps DEF List
<1>2. CASE /\ codeList' = site[co] \/ codeList' = <<>>
           /\ dfps' = <<>> /\ pc' = "each"
           /\ shown' = [shown EXCEPT ![co] = @ \union {codeList'}]
           /\ UNCHANGED <<co, last>>
  <2>1. co \in Company /\ codeList' \in Seq(Code) /\ dfps' \in Seq(Code)
    <3>1. <<>> \in Seq(Code)
      OBVIOUS
    <3> QED
      BY <1>2, <3>1 DEF IInv, TypeOK
  <2>2. /\ shown' \in [Company -> SUBSET Seq(Code)]
        /\ codeList' \in shown'[co]
        /\ \A c \in Company : shown[c] \subseteq shown'[c]
    BY <1>2, <2>1 DEF IInv, TypeOK
  <2>3. TypeOK'
    BY <1>2, <2>1, <2>2 DEF List, IInv, TypeOK, world, Place
  <2>4. FilesAreOneList'
    BY <2>2 DEF List, IInv, FilesAreOneList
  <2>5. Len(dfps') = 0 /\ Len(codeList') \in Nat
    BY <1>2, <2>1
  <2>6. FirstOfTheList'
    BY <1>2, <2>2, <2>5 DEF FirstOfTheList
  <2> QED
    BY <1>2, <2>3, <2>4, <2>6 DEF IInv, Complete, Fetching
<1> QED
  BY <1>1, <1>2 DEF List

LEMMA EachKeeps ==
    ASSUME IInv, Each
    PROVE  IInv'
<1>1. CASE Fail
  BY <1>1, EndKeeps DEF Each
<1>2. CASE Push(NextCode) /\ UNCHANGED <<pc, co, last, codeList>>
  BY <1>2, PushKeeps DEF Each, Listed
<1>3. CASE pc' = "download" /\ UNCHANGED memory
  <2>1. TypeOK'
    BY <1>3 DEF Each, IInv, TypeOK, world, memory, Place
  <2> QED
    BY <1>3, <2>1 DEF Each, IInv, memory, FilesAreOneList, FirstOfTheList, Complete,
                      Listed, Fetching
<1> QED
  BY <1>1, <1>2, <1>3 DEF Each

LEMMA FetchKeeps ==
    ASSUME IInv, Download \/ Extract \/ Parse
    PROVE  IInv'
<1>1. CASE pc' \in {"extract", "parse"} /\ UNCHANGED memory
  <2>1. TypeOK'
    BY <1>1 DEF Download, Extract, Parse, IInv, TypeOK, world, memory, Place
  <2> QED
    BY <1>1, <2>1 DEF Download, Extract, Parse, IInv, memory, FilesAreOneList,
                      FirstOfTheList, Complete, Listed, Fetching
<1>2. CASE Fail \/ NeverCalled
  BY <1>2, EndKeeps DEF Download, Extract, Parse
<1>3. CASE Parse /\ pc' = "each" /\ Push(NextCode) /\ UNCHANGED <<co, last, codeList>>
  BY <1>3, PushKeeps DEF Parse, Listed, IInv, Complete, Fetching
<1> QED
  BY <1>1, <1>2, <1>3 DEF Download, Extract, Parse

-----------------------------------------------------------------------------
(* Writing. *)

LEMMA WriteFileKeeps ==
    ASSUME IInv, WriteFile
    PROVE  IInv'
<1>1. CASE Fail /\ UNCHANGED file
  BY <1>1, EndKeeps DEF WriteFile
<1>2. CASE /\ pc' = "write"
           /\ file' = [file EXCEPT ![co] = [state |-> "cut", dfps |-> <<>>]]
           /\ UNCHANGED memory
  <2>1. [state |-> "cut", dfps |-> <<>>] \in File
    BY DEF File
  <2>2. co \in Company /\ file' \in [Company -> File]
    BY <1>2, <2>1 DEF IInv, TypeOK
  <2>3. TypeOK'
    BY <1>2, <2>2 DEF WriteFile, IInv, TypeOK, world, memory, Place
  <2>4. FilesAreOneList'
    BY <1>2, <2>2 DEF WriteFile, IInv, TypeOK, FilesAreOneList
  <2> QED
    BY <1>2, <2>3, <2>4 DEF WriteFile, IInv, memory, FirstOfTheList, Complete, Listed, Fetching
<1> QED
  BY <1>1, <1>2 DEF WriteFile

(* What is written is the list, each statement of it in its place.         *)
LEMMA AllOfTheList ==
    ASSUME IInv, pc = "write"
    PROVE  dfps = codeList /\ dfps \in shown[co]
<1>1. dfps \in Seq(Code) /\ codeList \in Seq(Code) /\ Len(dfps) = Len(codeList)
  BY DEF IInv, TypeOK, Complete
<1>2. \A i \in 1 .. Len(dfps) : dfps[i] = codeList[i]
  BY DEF IInv, FirstOfTheList, Listed
<1>3. dfps = codeList
  BY <1>1, <1>2
<1> QED
  BY <1>3 DEF IInv, FirstOfTheList, Listed

LEMMA WrittenKeeps ==
    ASSUME IInv, Written
    PROVE  IInv'
<1>1. CASE Fail /\ UNCHANGED file
  BY <1>1, EndKeeps DEF Written
<1>2. CASE /\ file' = [file EXCEPT ![co] = [state |-> "whole", dfps |-> dfps]]
           /\ NextCompany
  <2>1. /\ pc' \in {"off", "stuck", "codes"} /\ codeList' = codeList /\ dfps' = dfps
        /\ co' \in Company /\ last' = last /\ co' <= last'
    BY <1>2, EndOfList
  <2>2. dfps \in shown[co] /\ co \in Company /\ dfps \in Seq(Code)
    BY AllOfTheList DEF Written, IInv, TypeOK
  <2>3. [state |-> "whole", dfps |-> dfps] \in File
    BY <2>2 DEF File
  <2>4. file' \in [Company -> File]
    BY <1>2, <2>2, <2>3 DEF IInv, TypeOK
  <2>5. TypeOK'
    BY <2>1, <2>4 DEF Written, IInv, TypeOK, world, Place
  <2>6. FilesAreOneList'
    BY <1>2, <2>2 DEF Written, IInv, TypeOK, FilesAreOneList
  <2> QED
    BY <2>1, <2>5, <2>6 DEF IInv, FirstOfTheList, Complete, Listed, Fetching
<1> QED
  BY <1>1, <1>2 DEF Written

-----------------------------------------------------------------------------
(* The rest of the world. *)

LEMMA EndsKeep ==
    ASSUME IInv, Exit \/ Crash
    PROVE  IInv'
<1>1. TypeOK'
  BY DEF Exit, Crash, IInv, TypeOK, world, memory, Place
<1> QED
  BY <1>1 DEF Exit, Crash, IInv, memory, FilesAreOneList, FirstOfTheList, Complete,
              Listed, Fetching

(* What the site does meanwhile touches neither the files nor the memory.  *)
LEMMA PublishKeeps ==
    ASSUME IInv, Publish
    PROVE  IInv'
<1>1. PICK c \in Company :
        /\ filed[c] < MaxCode
        /\ filed' = [filed EXCEPT ![c] = @ + 1]
        /\ \/ site' = [site EXCEPT ![c] = <<filed[c] + 1>> \o @]
           \/ \E i \in DOMAIN site[c] : site' = [site EXCEPT ![c][i] = filed[c] + 1]
        /\ UNCHANGED <<file, pc, memory, calm, shown>>
  BY DEF Publish
<1>2. filed[c] \in Nat /\ filed[c] + 1 \in Code /\ filed[c] + 1 \in 0 .. MaxCode
  BY <1>1, CodeAssumption DEF IInv, TypeOK, Code
<1>3. site[c] \in Seq(Code)
  BY DEF IInv, TypeOK
<1>4. <<filed[c] + 1>> \o site[c] \in Seq(Code)
  BY <1>2, <1>3
<1>5. \A i \in DOMAIN site[c] : [site[c] EXCEPT ![i] = filed[c] + 1] \in Seq(Code)
  BY <1>2, <1>3
<1>6. site' \in [Company -> Seq(Code)]
  BY <1>1, <1>4, <1>5 DEF IInv, TypeOK
<1>7. filed' \in [Company -> 0 .. MaxCode]
  BY <1>1, <1>2 DEF IInv, TypeOK
<1>8. TypeOK'
  BY <1>1, <1>6, <1>7 DEF IInv, TypeOK, memory
<1> QED
  BY <1>1, <1>8 DEF IInv, memory, FilesAreOneList, FirstOfTheList, Complete, Listed, Fetching

LEMMA IdleKeeps ==
    ASSUME IInv, Calm \/ UNCHANGED vars
    PROVE  IInv'
<1>1. TypeOK'
  BY DEF Calm, vars, world, memory, IInv, TypeOK
<1> QED
  BY <1>1 DEF Calm, vars, world, memory, IInv, FilesAreOneList, FirstOfTheList, Complete,
              Listed, Fetching

-----------------------------------------------------------------------------
LEMMA Initially == Init => IInv
<1> SUFFICES ASSUME Init PROVE IInv
  OBVIOUS
<1>1. <<>> \in Seq(Code) /\ 1 \in Company /\ 0 \in 0 .. MaxCode
  BY CompaniesAssumption, CodeAssumption DEF Company
<1>2. [state |-> "absent", dfps |-> <<>>] \in File
  BY DEF File
<1>3. TypeOK
  BY <1>1, <1>2 DEF Init, TypeOK, Place
<1> QED
  BY <1>3 DEF Init, IInv, FilesAreOneList, FirstOfTheList, Complete, Listed, Fetching

LEMMA Inductive == IInv /\ [Next]_vars => IInv'
BY StartKeeps, CodesKeeps, ListKeeps, EachKeeps, FetchKeeps, WriteFileKeeps, WrittenKeeps,
   EndsKeep, PublishKeeps, IdleKeeps DEF Next, Chain

LEMMA Invariance == Spec => []IInv
BY Initially, Inductive, PTL DEF Spec

(* The update never leaves the types of its variables: it is never at a    *)
(* company that is not on the list.                                        *)
THEOREM TypeCorrect == Spec => []TypeOK
<1>1. IInv => TypeOK
  BY DEF IInv
<1> QED
  BY <1>1, Invariance, PTL

(* However often an update fails or ends, and whatever is filed meanwhile, *)
(* a whole file is one list as the site showed it.                         *)
THEOREM FilesAreWhatWasShown == Spec => []FilesAreOneList
<1>1. IInv => FilesAreOneList
  BY DEF IInv
<1> QED
  BY <1>1, Invariance, PTL
=============================================================================
