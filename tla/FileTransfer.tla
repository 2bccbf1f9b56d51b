---------------------------- MODULE FileTransfer ----------------------------
(***************************************************************************)
(* File transfers of susa.communicators.unix.UnixCommunicator: files are   *)
(* moved by nothing but shell commands, and each of these may fail or time *)
(* out, having done all of its work, a part of it or none.                 *)
(*                                                                         *)
(* upload() packs the local files into an archive, which write_file()      *)
(* compresses, appends to a temporary file one `printf' at a time, and     *)
(* decompresses into a second one, which tar unpacks.  download() has tar  *)
(* pack the remote files into a temporary file, reads that through `gzip   *)
(* -c', removes it, and writes the local files.  upload_single() and       *)
(* download_single() do without the archive.                               *)
(*                                                                         *)
(* A call is the sequence of the effects of its commands, cut short by a   *)
(* failure.  Call number n uploads version n of the local files.           *)
(***************************************************************************)
EXTENDS Naturals, Sequences

CONSTANTS
    NumFiles,  \* the files of a call of upload() or download(): 1 .. NumFiles
    Chunks,    \* how many commands it takes to append the compressed data
    MaxCalls,  \* bound: how many calls are made
    Part       \* the content of a file of which only a part was written

Files == 1 .. NumFiles
Temporaries == (1 .. MaxCalls) \X {1, 2}  \* mktemp's names are new: nth call, 1st or 2nd

VARIABLES
    calls,     \* how many calls were made
    way,       \* of the last call: "up" or "down"
    moved,     \* the files of the last call
    todo,      \* the effects that are left of it: <<what it does, to what>>
    outcome,   \* of the last call: "none" (yet), "working", "returned" or "raised"
    temps,     \* the temporary files on the machine: [some Temporaries -> content]
    remote,    \* [Files -> content]: the machine's files
    local,     \* [Files -> content]: what downloads wrote
    archive    \* [Files -> content]: what tar packed, and gzip read

vars == <<calls, way, moved, todo, outcome, temps, remote, local, archive>>

Content == 0 .. MaxCalls \cup {Part}

Assumptions ==
    NumFiles \in Nat /\ Chunks \in Nat \ {0} /\ MaxCalls \in Nat /\ Part \notin 0 .. MaxCalls

Init ==
    /\ calls = 0 /\ way = "up" /\ moved = {} /\ todo = <<>> /\ outcome = "none"
    /\ temps = <<>>
    /\ remote = [f \in Files |-> 0] /\ local = [f \in Files |-> 0]
    /\ archive = [f \in Files |-> 0]

-----------------------------------------------------------------------------
\* The effects of each method, in order.

\* A slip: the data is appended where it is to be in the end, which is cut before.
WriteInPlace(t, open, fill) ==
    open \o <<<<"mktemp", t>>>> \o [i \in 1 .. Chunks |-> <<"append", t>>]
         \o fill \o <<<<"rm", t>>>>

\* write_file(): temporary_file(), append(), then "gzip -dc < temporary > target", whose
\* target the shell opens, and cuts, first, "&& rm temporary".
WriteFile(t, open, fill) ==
    <<<<"mktemp", t>>>> \o [i \in 1 .. Chunks |-> <<"append", t>>]
        \o open \o fill \o <<<<"rm", t>>>>

Cut(f) == <<"cut", f>>
Put(f) == <<"put", f>>

\* By tar, which cuts each file, then fills it.
Unpack ==
    [k \in 1 .. 2 * NumFiles |->
        LET f == (k + 1) \div 2 IN IF k % 2 = 1 THEN Cut(f) ELSE Put(f)]

Upload ==
    <<<<"mktemp", 1>>>>
        \o WriteFile(2, <<<<"cut archive", 1>>>>, <<<<"gunzip", 1>>>>)
        \o Unpack
        \o <<<<"rm", 1>>>>

UploadSingle(f) == WriteFile(1, <<Cut(f)>>, <<Put(f)>>)

Download ==
    <<<<"mktemp", 1>>>>
        \o [f \in Files |-> <<"pack", f>>]
        \o <<<<"rm", 1>>>>
        \o [f \in Files |-> <<"write", f>>]

DownloadSingle(f) == <<<<"pack", f>>, <<"write", f>>>>

Call(w, files, effects) ==
    /\ outcome # "working" /\ calls < MaxCalls
    /\ calls' = calls + 1
    /\ way' = w /\ moved' = files
    /\ todo' = effects
    /\ outcome' = "working"
    /\ UNCHANGED <<temps, remote, local, archive>>

-----------------------------------------------------------------------------
Doing(effect) == todo # <<>> /\ Head(todo)[1] = effect

Goes ==
    /\ todo' = Tail(todo)
    /\ UNCHANGED <<calls, way, moved, outcome>>

Temp(t) == <<calls, t>>
Arg == Head(todo)[2]

With(t, content) ==
    temps' = [u \in DOMAIN temps \cup {t} |-> IF u = t THEN content ELSE temps[u]]

Mktemp ==
    /\ Doing("mktemp")
    /\ With(Temp(Arg), 0)
    /\ Goes /\ UNCHANGED <<remote, local, archive>>

\* printf '...' >> temporary
Append1 ==
    /\ Doing("append")
    /\ With(Temp(Arg), temps[Temp(Arg)] + 1)
    /\ Goes /\ UNCHANGED <<remote, local, archive>>

\* All chunks are there, so that gzip ends without an error.
Whole(t) == t \in DOMAIN temps /\ temps[t] = Chunks

WriteArchive ==
    /\ \/ Doing("cut archive") /\ With(Temp(Arg), 0)
       \/ Doing("gunzip") /\ Whole(Temp(2)) /\ With(Temp(Arg), Chunks)
    /\ Goes /\ UNCHANGED <<remote, local, archive>>

\* By "> remote" or by tar, which opens a file before it writes it.
WriteRemote ==
    /\ \/ /\ Doing("cut")
          /\ remote' = [remote EXCEPT ![Arg] = Part]
       \/ /\ Doing("put") /\ Whole(Temp(1))
          /\ remote' = [remote EXCEPT ![Arg] = calls]
    /\ Goes /\ UNCHANGED <<temps, local, archive>>

Rm ==
    /\ Doing("rm")
    /\ temps' = [u \in DOMAIN temps \ {Temp(Arg)} |-> temps[u]]
    /\ Goes /\ UNCHANGED <<remote, local, archive>>

\* tar -cP, or gzip -c of a single file.
Pack ==
    /\ Doing("pack")
    /\ archive' = [archive EXCEPT ![Arg] = remote[Arg]]
    /\ Goes /\ UNCHANGED <<temps, remote, local>>

WriteLocal ==
    /\ Doing("write")
    /\ local' = [local EXCEPT ![Arg] = archive[Arg]]
    /\ Goes /\ UNCHANGED <<temps, remote, archive>>

Return ==
    /\ outcome = "working" /\ todo = <<>>
    /\ outcome' = "returned"
    /\ UNCHANGED <<calls, way, moved, todo, temps, remote, local, archive>>

\* A command fails, or the deadline passes while it is at work: before its next effect,
\* or after all of them.
Fail ==
    /\ outcome = "working"
    /\ todo' = <<>>
    /\ outcome' = "raised"
    /\ UNCHANGED <<calls, way, moved, temps, remote, local, archive>>

Next ==
    \/ Call("up", Files, Upload)
    \/ Call("down", Files, Download)
    \/ \E f \in Files : Call("up", {f}, UploadSingle(f)) \/ Call("down", {f}, DownloadSingle(f))
    \/ Mktemp \/ Append1 \/ WriteArchive \/ WriteRemote \/ Rm \/ Pack \/ WriteLocal
    \/ Return \/ Fail

-----------------------------------------------------------------------------
TypeOK ==
    /\ calls \in 0 .. MaxCalls
    /\ way \in {"up", "down"} /\ moved \subseteq Files
    /\ outcome \in {"none", "working", "returned", "raised"}
    /\ DOMAIN temps \subseteq Temporaries /\ \A t \in DOMAIN temps : temps[t] \in 0 .. Chunks
    /\ {remote, local, archive} \subseteq [Files -> Content]

\* A call that returns did all it was for: its files are on the other side, each of them
\* whole, and it left no temporary file.  (One that raised may have left two.)
ReturnedMeansMoved ==
    outcome = "returned" =>
        /\ \A f \in moved : IF way = "up" THEN remote[f] = calls ELSE local[f] = remote[f]
        /\ \A t \in DOMAIN temps : t[1] # calls

\* Nothing is changed for data that may not arrive: the machine's files are as they were
\* until all chunks are there, so that an upload that fails or times out before its last
\* command leaves them; and so are the local ones until tar packed all that was asked for
\* and the machine is rid of the archive.
ChangedOnceArrived ==
    /\ remote' # remote => way = "up" /\ Whole(Temp(1))
    /\ local' # local =>
           way = "down" /\ Temp(1) \notin DOMAIN temps /\ \A f \in moved : archive[f] = remote[f]
=============================================================================
