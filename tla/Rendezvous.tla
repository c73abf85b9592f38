----------------------------- MODULE Rendezvous -----------------------------
(***************************************************************************)
(* Where a daemon and its emitters meet (crates/lightwatch-proto/src/      *)
(* socket.rs) and the order a probe tries sockets in (crates/lightwatch-   *)
(* probe/src/emit.rs).  A path is the sequence of its parts; an            *)
(* environment is what the variables of one user's session say.            *)
(***************************************************************************)
EXTENDS SequencesExt

Unset == "unset"
SocketFile == "lightwatch.sock"

\* resolve_socket_dir.
SocketDir(env) ==
  IF env.explicit # Unset THEN <<env.explicit>>
  ELSE IF env.macos /\ env.tmpdir # Unset THEN <<env.tmpdir, "lightwatch">>
  ELSE <<IF env.xdg # Unset THEN env.xdg ELSE "temp", "lightwatch">>

\* present: the entries of dir, a file name and its extension each; the names are
\* numbered as they sort.
CandidateSockets(dir, exact, present) ==
  LET others == {f \in present : f.ext = "sock" /\ f.name # SocketFile}
      sorted == SetToSortSeq(others, LAMBDA a, b : a.order < b.order)
  IN IF exact # Unset THEN << <<exact>> >>
     ELSE <<Append(dir, SocketFile)>>
            \o [i \in DOMAIN sorted |-> Append(dir, sorted[i].name)]

\* Sink::connect: the first that answers.
Reached(candidates, listening) ==
  SelectSeq(candidates, LAMBDA path : path \in listening)

DaemonSocket(env) == Append(SocketDir(env), SocketFile)
-----------------------------------------------------------------------------
Environments ==
  [explicit: {Unset, "chosen"}, tmpdir: {Unset, "t"}, xdg: {Unset, "x"}, macos: BOOLEAN]

Entries == {[name |-> SocketFile, ext |-> "sock", order |-> 2],
            [name |-> "a.sock", ext |-> "sock", order |-> 1],
            [name |-> "z.sock", ext |-> "sock", order |-> 3],
            [name |-> "notes", ext |-> "txt", order |-> 4]}

\* "The rule is only useful while the binder and the connectors agree on it"
\* (socket.rs:5-7): a probe of the same environment reaches the daemon whatever else lies
\* in the directory or listens there, "any other socket in it is tried after that"
\* (emit.rs:167-169), and one told of a socket reaches that one or none.
ASSUME BinderAndConnectorsAgree ==
  \A env \in Environments, present \in SUBSET Entries, exact \in {Unset, "told"} :
    LET candidates == CandidateSockets(SocketDir(env), exact, present)
        others == {Append(SocketDir(env), f.name) : f \in present}
    IN \A listening \in SUBSET (others \cup {DaemonSocket(env), <<"told">>}) :
         LET reached == Reached(candidates, listening)
         IN /\ exact = Unset /\ DaemonSocket(env) \in listening
                 => reached # << >> /\ reached[1] = DaemonSocket(env)
            /\ exact # Unset => ToSet(reached) = listening \cap {<<exact>>}
            /\ IsInjective(candidates)
=============================================================================
