----------------------------- MODULE MCNamespace -----------------------------
(* Instances of Namespace for TLC. *)
EXTENDS Namespace, TLC

CONSTANTS a, b, t1, t2, t3

Dir(in, name, ino) == [in |-> in, name |-> name, ino |-> ino, type |-> "dir"]
File(in, name, ino) == [in |-> in, name |-> name, ino |-> ino, type |-> "file"]

Call(k, p) == [k |-> k, p1 |-> p]
Call2(k, p, q) == [k |-> k, p1 |-> p, p2 |-> q]
Close == [k |-> "close"]
Load3(tree, ops1, ops2, ops3, calls, crash) ==
    [tree |-> tree, ops |-> (t1 :> ops1 @@ t2 :> ops2 @@ t3 :> ops3), calls |-> calls, crash |-> crash]
Load(tree, ops1, ops2, calls, crash) == Load3(tree, ops1, ops2, {}, calls, crash)

Chdir(p) == Call("chdir", p)
Getcwd == [k |-> "getcwd"]
Unmounting == [k |-> "unmount"]

\* /a and /b are directories, /a/a is one below /a, /a/b and /b/b are the same file.
\* Any rename against any other call, one each.
Twigs == {Dir(1, a, 2), Dir(1, b, 3), Dir(2, a, 4), File(2, b, 5), File(3, b, 5)}
Renames == {Call2("rename", p, q) : p \in {<<a>>, <<b>>, <<a, a>>, <<a, b>>},
                                    q \in {<<a>>, <<b, a>>, <<b, b>>, <<a, a, a>>}}
Others == {Call(k, p) : k \in {"open", "creat", "mkdir", "rmdir", "remove"},
                        p \in {<<b>>, <<a, a>>, <<a, b>>, <<b, b>>, <<a, a, a>>}}
            \cup {Call2("link", <<a, b>>, <<b, a>>), Call2("link", <<b, b>>, <<a, a, a>>)}
Pairs == Load(Twigs, Renames, Renames \cup Others, 1, FALSE)

\* A file that loses its names while it is open or about to be linked, with a crash.
Unlinking == Load({File(1, a, 2)},
                  {Call2("link", <<a>>, <<b>>), Call("open", <<a>>), Close},
                  {Call("remove", <<a>>), Call("remove", <<b>>), Call("creat", <<a>>), Close}, 3, TRUE)

\* Directories that are removed under calls that found them before; the disk gets full.
Removing == Load({Dir(1, a, 2), File(1, b, 3)},
                 {Call2("link", <<b>>, <<a, a>>), Call("creat", <<a, b>>), Call("mkdir", <<a, a>>),
                  Close},
                 {Call("rmdir", <<a>>), Call("mkdir", <<a>>), Call("creat", <<a, a>>),
                  Call2("rename", <<a, a>>, <<a>>), Call2("rename", <<a, a>>, <<b>>)}, 3, FALSE)

\* getcwd, while the directories above the current one move or go away.
Cwd == Load({Dir(1, a, 2), Dir(2, a, 3)},
            {Chdir(<<a, a>>), Getcwd, Close},
            {Call("rmdir", <<a, a>>), Call("rmdir", <<a>>), Call2("rename", <<a>>, <<b>>),
             Call2("rename", <<a, a>>, <<b>>)}, 3, FALSE)

\* Three at a time.
Three == Load3({Dir(1, a, 2), Dir(2, a, 3), File(2, b, 4)},
               {Call2("rename", <<a, a>>, <<b>>), Call2("rename", <<a, b>>, <<a, a, a>>)},
               {Call("rmdir", <<a, a>>), Call("remove", <<a, b>>), Call("mkdir", <<a, a, b>>),
                Call2("link", <<a, b>>, <<b>>), Call2("rename", <<a>>, <<b>>)},
               {Call("rmdir", <<a>>), Call("open", <<a, b>>), Call("creat", <<a, a, a>>)}, 1, TRUE)

\* An unmount that is refused, and paths to the wrong type of object.
Busy == Load({File(1, a, 2), Dir(1, b, 3)}, {Unmounting},
             {Call("open", <<a>>), Call("open", <<a, b>>), Call("remove", <<a>>),
              Call2("link", <<b>>, <<b, a>>), Close}, 2, TRUE)

\* One rename and one remove are enough for the deadlock of NoDeadlock.
DeadlockLoads == <<Load(Twigs, {Call2("rename", <<a, a>>, <<b, b>>)}, {Call("remove", <<a, b>>)},
                        1, FALSE)>>

MCLoads == <<Pairs, Unlinking, Removing, Cwd, Three, Busy>>
==============================================================================
