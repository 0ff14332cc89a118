---------------------------- MODULE MCFileSystem ----------------------------
(* Instances of FileSystem: archives, names, paths and data for TLC. *)
EXTENDS FileSystem, TLC

\* "l" has 31 characters, "lm" goes on after them, "lmn" fills no array.
MCNameLen == ("/" :> 1) @@ ("init.elf" :> 8) @@ ("." :> 1) @@ (".." :> 2) @@ ("a" :> 1) @@ ("b" :> 1)
             @@ ("l" :> 31) @@ ("lm" :> 40) @@ ("lmn" :> 70)
MCCut == [n \in DOMAIN MCNameLen |-> IF MCNameLen[n] > 31 THEN "l" ELSE n]

Dir(path) == [path |-> path, type |-> "dir", data |-> <<>>]
File(path, data) == [path |-> path, type |-> "file", data |-> data]

Members ==
    {Dir(<<".">>), Dir(<<".", "a">>), Dir(<<"lm">>), Dir(<<"lmn">>), Dir(<<"a", "b">>),
     File(<<"a">>, <<"x">>), File(<<".", "b">>, <<"x", "y">>), File(<<"b">>, <<"z">>),
     File(<<"a", "b">>, <<"y">>), File(<<"l">>, <<"x">>), File(<<"lm">>, <<"y", "y", "z">>),
     [path |-> <<"b">>, type |-> "link", data |-> <<>>]}

\* Every archive of up to four of them: no /init.elf, so no system calls.
AllArchives == UNION {[1 .. n -> Members] : n \in 0 .. 4}

\* /init.elf and two files in a directory, one of them archived twice.
SmallArchives == {<<Dir(<<".">>), Dir(<<".", "a">>), File(<<".", "init.elf">>, <<"x">>),
                    File(<<".", "a", "b">>, <<"x", "y">>), File(<<".", "a", "a">>, <<"z">>),
                    File(<<".", "a", "b">>, <<"y", "x">>)>>}

MCArchives == AllArchives \union SmallArchives

MCWrites == {<<"z">>, <<"x", "y", "z">>}
Path(slashes, tokens) == [slashes |-> slashes, tokens |-> tokens]
MCPaths == {Path(0, <<"a">>), Path(1, <<"a", "b">>), Path(2, <<"a", "b">>),
            Path(2, <<"a", "..", "a", ".">>), Path(2, <<"a", "a">>)}
=============================================================================
