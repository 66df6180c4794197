---------------------------- MODULE SnapshotStore ----------------------------
(***************************************************************************)
(* SnapshotStore.extend (snapshot/store.py) on the directory of one block: *)
(* load what is stored, read what is missing, publish both again through   *)
(* calls.json.gz.tmp and a rename.  Processes share the directory and the  *)
(* temporary name; any of them may be killed between two of these steps.   *)
(*                                                                         *)
(* A stored call is its spec: what it answers is fixed by the block        *)
(* (RpcClient).  A file name holds an inode, so that a process goes on     *)
(* writing to a file whose name another one has moved.  header.json, whose *)
(* content never varies, is written and renamed in one step.               *)
(***************************************************************************)
EXTENDS Naturals

CONSTANTS Processes, Specs, Inodes, None

ASSUME SnapshotStoreAssumption == None \notin Inodes

VARIABLES header,    \* header.json exists
          calls,     \* the inode of calls.json.gz
          tmp,       \* the inode of calls.json.gz.tmp
          content,   \* of each inode
          extend     \* the extend call of each process

store == <<header, calls, tmp, content, extend>>

Extends ==
    [at : {"idle", "load", "read", "header", "open", "write", "rename",
           "returned", "raised"},
     wanted : SUBSET Specs,         \* specs
     rows : SUBSET Specs,           \* the snapshot under construction
     file : Inodes \cup {None}]     \* the temporary it has open

Idle == [at |-> "idle", wanted |-> {}, rows |-> {}, file |-> None]

Torn == [rows |-> {}, complete |-> FALSE]

StoreTypeOK ==
    /\ header \in BOOLEAN
    /\ calls \in Inodes \cup {None} /\ tmp \in Inodes \cup {None}
    /\ content \in [Inodes -> [rows : SUBSET Specs, complete : BOOLEAN]]
    /\ extend \in [Processes -> Extends]

StoreInit ==
    /\ header = FALSE
    /\ calls = None /\ tmp = None
    /\ content = [i \in Inodes |-> Torn]
    /\ extend = [p \in Processes |-> Idle]
-----------------------------------------------------------------------------
Extending(p, wanted) == [Idle EXCEPT !.at = "load", !.wanted = wanted]

Advance(p, at) == extend' = [extend EXCEPT ![p].at = at]

Stored == header /\ calls # None

\* Mutant: a snapshot that is not there yet is waited for.
LoadWaiting(p) ==
    /\ extend[p].at = "load"
    /\ Stored /\ content[calls].complete
    /\ LET rows == content[calls].rows IN
       extend' = [extend EXCEPT ![p].rows = rows,
                                ![p].at = IF extend[p].wanted \subseteq rows
                                            THEN "returned" ELSE "read"]
    /\ UNCHANGED <<header, calls, tmp, content>>

\* FileNotFoundError, of either file, starts the snapshot afresh; a file that
\* cannot be read to its end raises.  With nothing missing nothing is written.
Load(p) ==
    /\ extend[p].at = "load"
    /\ \/ ~Stored /\ Advance(p, "read")
       \/ Stored /\ ~content[calls].complete /\ Advance(p, "raised")
       \/ /\ Stored /\ content[calls].complete
          /\ LET rows == content[calls].rows IN
             extend' = [extend EXCEPT ![p].rows = rows,
                                      ![p].at = IF extend[p].wanted \subseteq rows
                                                  THEN "returned" ELSE "read"]
    /\ UNCHANGED <<header, calls, tmp, content>>

\* Multicall3.call reads the missing specs or raises (see Multicall).
Read(p) ==
    /\ extend[p].at = "read"
    /\ \/ extend' = [extend EXCEPT ![p].rows = @ \cup extend[p].wanted, ![p].at = "header"]
       \/ Advance(p, "raised")
    /\ UNCHANGED <<header, calls, tmp, content>>

\* Once header.json is there, another process may have moved the temporary
\* this one was about to rename.
PublishHeader(p) ==
    /\ extend[p].at = "header"
    /\ header' = TRUE
    /\ \/ Advance(p, "open")
       \/ header /\ Processes # {p} /\ Advance(p, "raised")
    /\ UNCHANGED <<calls, tmp, content>>

Unused(i) == i # calls /\ i # tmp /\ \A p \in Processes : extend[p].file # i

OpenFile(p, i) ==
    /\ content' = [content EXCEPT ![i] = Torn]
    /\ extend' = [extend EXCEPT ![p].file = i, ![p].at = "write"]

\* Mutant: the file is rewritten in place.
OpenInPlace(p) ==
    /\ extend[p].at = "open"
    /\ \/ calls # None /\ OpenFile(p, calls) /\ tmp' = calls
       \/ calls = None /\ \E i \in Inodes : Unused(i) /\ OpenFile(p, i) /\ tmp' = i
    /\ UNCHANGED <<header, calls>>

\* Opening for writing truncates a temporary that exists, whoever's it is.
OpenTemporary(p) ==
    /\ extend[p].at = "open"
    /\ \/ tmp # None /\ OpenFile(p, tmp) /\ UNCHANGED tmp
       \/ tmp = None /\ \E i \in Inodes : Unused(i) /\ OpenFile(p, i) /\ tmp' = i
    /\ UNCHANGED <<header, calls>>

Shared(p) ==
    \E q \in Processes \ {p} : extend[q].at = "write" /\ extend[q].file = extend[p].file

\* Mutant: only the calls just read are written.
WriteWanted(p) ==
    /\ extend[p].at = "write"
    /\ content' = [content EXCEPT ![extend[p].file] =
                      [rows |-> extend[p].wanted, complete |-> TRUE]]
    /\ Advance(p, "rename")
    /\ UNCHANGED <<header, calls, tmp>>

\* Two writers of one file leave it with one's rows or unreadable.
WriteRows(p) ==
    /\ extend[p].at = "write"
    /\ \E complete \in {TRUE} \cup (IF Shared(p) THEN {FALSE} ELSE {}) :
          content' = [content EXCEPT ![extend[p].file] =
                         IF complete THEN [rows |-> extend[p].rows, complete |-> TRUE]
                                     ELSE Torn]
    /\ Advance(p, "rename")
    /\ UNCHANGED <<header, calls, tmp>>

\* Whatever bears the temporary name is published; if nothing does, replace
\* raises FileNotFoundError.
Rename(p) ==
    /\ extend[p].at = "rename"
    /\ \/ /\ tmp # None
          /\ calls' = tmp /\ tmp' = None
          /\ extend' = [extend EXCEPT ![p].at = "returned", ![p].file = None]
       \/ /\ tmp = None
          /\ extend' = [extend EXCEPT ![p].at = "raised", ![p].file = None]
          /\ UNCHANGED <<calls, tmp>>
    /\ UNCHANGED <<header, content>>

ExtendStep(p) ==
    \/ Load(p) \/ Read(p) \/ PublishHeader(p)
    \/ OpenTemporary(p) \/ WriteRows(p) \/ Rename(p)
=============================================================================
