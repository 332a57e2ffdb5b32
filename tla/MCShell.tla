------------------------------ MODULE MCShell -------------------------------
(* One shell, one name, two inodes; the lines below and all their prefixes *)
(* are typed, with any corrections.                                        *)
EXTENDS Shell

CONSTANT MaxNest    \* shells that wait for another

MCLines ==
    { <<"cd", " ", "/", "a">>,
      <<"cd", " ", "..", " ", "a">>,
      <<"mkdir", " ", "a">>,
      <<"rmdir", " ", ".">>,
      <<"rm", " ", "/", "a", "/", "a">>,
      <<"ls", " ", "a">>,
      <<"pwd", " ", "a">>,
      <<"a", "|", "ls", "|", "a">>,
      <<"cd", "|", "a", " ", "a", " ", "a">> }

Nested == Len(waiting) <= MaxNest
=============================================================================
