----------------------------- MODULE RemoteFiles -----------------------------
(* The file channels of a session: RPC_OPEN_FILE, RPC_CLOSE_FILE,           *)
(* RPC_READ_FILE and RPC_WRITE_FILE of rpc_server.cpp over the stream functions *)
(* of fpro.cpp and diskio.cpp. A session keeps its streams in an array of       *)
(* channels; the client knows a stream by its index. A stream open for writing  *)
(* keeps the bytes written last to itself until it is moved or closed.          *)
EXTENDS Integers, Sequences, SequencesExt, FiniteSets

CONSTANTS Files,
          Channels,     \* size of the array
          Bytes,        \* values of a byte other than the zero of a gap
          MaxLen,       \* bound: length of a file
          MaxRequests   \* bound: requests in a behaviour

\* "none" is no file: it stands in an empty channel.
ASSUME FilesAssumption ==
    "none" \notin Files /\ Channels \in Nat /\ MaxLen \in Nat /\ Bytes \subseteq Nat

VARIABLES disk,         \* [data, exec] of each file
          channels,     \* the array of the session
          handles,      \* what the client has open: file, mode, content; alone: no other stream had it
          reply,        \* of the request served last
          lost,         \* streams that nobody can close any more
          requests

fileVars == <<disk, channels, handles, reply, lost, requests>>

NoStream == [file |-> "none"]
NoBytes == [off |-> 0, data |-> <<>>]
Indices == 0 .. Channels - 1
NoReply == [what |-> "none"]

Get(data, off, n) == SubSeq(data, off + 1, IF off + n < Len(data) THEN off + n ELSE Len(data))

\* Bytes put at an offset; a gap before them reads as zeroes.
Put(data, w) ==
    IF w.data = <<>> THEN data
    ELSE [i \in 1 .. (IF w.off + Len(w.data) > Len(data) THEN w.off + Len(w.data) ELSE Len(data)) |->
             CASE i > w.off /\ i <= w.off + Len(w.data) -> w.data[i - w.off]
               [] (i <= w.off \/ i > w.off + Len(w.data)) /\ i <= Len(data) -> data[i]
               [] OTHER -> 0]

Flushed(d, st) == [d EXCEPT ![st.file].data = Put(@, st.pending)]

FindFreeChannel ==
    LET free == {i \in Indices : channels[i] = NoStream}
    IN  IF free = {} THEN -1 ELSE CHOOSE i \in free : \A j \in free : i <= j

\* qfread and qfwrite of fpro.cpp hand on the number of ITEMS that fread and
\* fwrite report, and the item is the whole buffer: one or nothing.
Qfread(data, off, n) == IF off + n <= Len(data) THEN 1 ELSE 0

\* Another stream on the file is open, or was left open.
Shared(f) ==
    \/ \E i \in Indices : channels[i] # NoStream /\ channels[i].file = f
    \/ \E st \in lost : st.file = f

\* No stream on f is alone any more.
Joined(f) ==
    [i \in Indices |-> IF handles[i] # NoStream /\ handles[i].file = f
                      THEN [handles[i] EXCEPT !.alone = FALSE] ELSE handles[i]]

\* The client has the stream of this index open.
Holds(fn) == handles[fn] # NoStream

Served(r) == reply' = r /\ requests' = requests + 1

------------------------------------------------------------------------------
(* An open may fail, in the file system or for want of a channel. A file open   *)
(* for writing is emptied at once.                                              *)
OpenFile(f, readonly) ==
    LET fn == FindFreeChannel
    IN  \/ /\ fn # -1
           /\ channels' = [channels EXCEPT ![fn] =
                  [file |-> f, readonly |-> readonly, pending |-> NoBytes]]
           /\ handles' = [Joined(f) EXCEPT ![fn] =
                  [file |-> f, readonly |-> readonly, alone |-> ~Shared(f), content |-> IF readonly THEN disk[f].data ELSE <<>>]]
           /\ disk' = IF readonly THEN disk ELSE [disk EXCEPT ![f].data = <<>>]
           /\ Served([what |-> "open", fn |-> fn, size |-> IF readonly THEN Len(disk[f].data) ELSE 0])
           /\ UNCHANGED lost
        \/ /\ Served([what |-> "open", fn |-> -1, size |-> 0])
           /\ UNCHANGED <<disk, channels, handles, lost>>

\* Closing writes what the stream still holds.
Qfclose(st) == Flushed(disk, st)

\* The file becomes executable, whatever it was opened for.
CloseFile(fn) ==
    /\ Holds(fn)
    /\ disk' = [Qfclose(channels[fn]) EXCEPT ![channels[fn].file].exec = TRUE]
    /\ channels' = [channels EXCEPT ![fn] = NoStream]
    /\ handles' = [handles EXCEPT ![fn] = NoStream]
    /\ Served([what |-> "close", handle |-> handles[fn]])
    /\ UNCHANGED lost

ReadAt(data, off, n) == Get(data, off, n)

\* The answer carries as many bytes as qfread has counted.
ReadFile(fn, off, size) ==
    /\ Holds(fn) /\ handles[fn].readonly
    /\ LET data == disk[channels[fn].file].data
           s2 == IF size > 0 THEN Qfread(data, off, size) ELSE 0
       IN  Served([what |-> "read", s2 |-> s2, error |-> size # s2, file |-> handles[fn].file,
                   off |-> off, data |-> SubSeq(ReadAt(data, off, size), 1, s2)])
    /\ UNCHANGED <<disk, channels, handles, lost>>

\* Seeded bug: the stream is not moved before it is written to.
WriteWhere(st, off) == st.pending.off + Len(st.pending.data)
Qfseek(st, off) == off

\* Moving the stream writes what it holds; the answer repeats the size asked for.
WriteFile(fn, off, bytes) ==
    /\ Holds(fn) /\ ~handles[fn].readonly
    /\ LET st == channels[fn]
           s2 == IF bytes = <<>> THEN 0 ELSE 1
       IN  /\ disk' = Flushed(disk, st)
           /\ channels' = [channels EXCEPT ![fn].pending = [off |-> Qfseek(st, off), data |-> bytes]]
           /\ handles' = [handles EXCEPT ![fn].content = Put(@, [off |-> off, data |-> bytes])]
           /\ Served([what |-> "write", s2 |-> Len(bytes), error |-> Len(bytes) # s2])
    /\ UNCHANGED lost

\* The end of a session forgets its streams: clear_channels, no close.
EndSession ==
    /\ \E i \in Indices : channels[i] # NoStream
    /\ lost' = lost \cup {channels[i] : i \in {j \in Indices : channels[j] # NoStream}}
    /\ channels' = [i \in Indices |-> NoStream]
    /\ handles' = [i \in Indices |-> NoStream]
    /\ Served(NoReply)
    /\ UNCHANGED disk

FilesInit ==
    /\ disk \in [Files -> {[data |-> d, exec |-> FALSE] : d \in {<<>>, [i \in 1 .. MaxLen |-> i]}}]
    /\ channels = [i \in Indices |-> NoStream]
    /\ handles = [i \in Indices |-> NoStream]
    /\ reply = NoReply /\ lost = {} /\ requests = 0

Data == {<<>>} \cup {<<b>> : b \in Bytes} \cup {<<b, c>> : b, c \in Bytes}

FilesNext ==
    /\ requests < MaxRequests
    /\ \/ \E f \in Files, readonly \in BOOLEAN : OpenFile(f, readonly)
       \/ \E fn \in Indices : CloseFile(fn)
       \/ \E fn \in Indices, off, size \in 0 .. MaxLen : ReadFile(fn, off, size)
       \/ \E fn \in Indices, off \in 0 .. MaxLen, bytes \in Data :
              off + Len(bytes) <= MaxLen /\ WriteFile(fn, off, bytes)
       \/ EndSession

FilesSpec == FilesInit /\ [][FilesNext]_fileVars

------------------------------------------------------------------------------
\* The streams the client holds are those of the array: no channel is given out
\* twice, and nothing but the end of the session frees the others.
HandlesAreStreams ==
    \A i \in Indices :
        /\ Holds(i) <=> channels[i] # NoStream
        /\ Holds(i) => /\ channels[i].file = handles[i].file
                          /\ channels[i].readonly = handles[i].readonly

\* A stream nobody else has a share in holds, with what it keeps to itself, all
\* the client has written through it, at the offsets it asked for.
StreamIsComplete ==
    \A i \in Indices :
        Holds(i) /\ handles[i].alone /\ ~handles[i].readonly
            => Flushed(disk, channels[i])[handles[i].file].data = handles[i].content

\* A file that was written and closed, and that nobody else had open, holds what
\* the client wrote.
ClosedIsComplete ==
    reply.what = "close" /\ ~reply.handle.readonly /\ reply.handle.alone
        => disk[reply.handle.file].data = reply.handle.content

\* What an answer to RPC_READ_FILE carries are bytes of the file at that offset.
ReadsTheFile ==
    reply.what = "read" /\ reply.data # <<>>
        => IsPrefix(reply.data, Get(disk[reply.file].data, reply.off, MaxLen))

\* Handles of the client are streams of its own, what it wrote is in the file when it is
\* closed, and it reads what is in the file (RPC_OPEN_FILE, RPC_CLOSE_FILE,
\* RPC_READ_FILE, RPC_WRITE_FILE).
FilesAreKept == HandlesAreStreams /\ StreamIsComplete /\ ClosedIsComplete /\ ReadsTheFile
==============================================================================
