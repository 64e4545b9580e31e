----------------------------- MODULE MCAppIndex -----------------------------
(* Instances of AppIndex for TLC.                                          *)
EXTENDS AppIndex

CONSTANTS k1, k2, root, ko, enGB, en, fr

MCFolders == {root, ko, enGB}
MCLanguageOf == [f \in MCFolders |-> IF f = ko THEN ko ELSE en]

File(folder, keys) == [folder |-> folder, keys |-> keys]
Item(launches, labels) == [launches |-> launches, labels |-> labels]

\* Resources of every kind: none, one language, two, and a region after its language.
MCFileLists ==
    {<<>>, <<File(root, {k1})>>, <<File(ko, {k1, k2})>>,
     <<File(root, {k1}), File(ko, {k1, k2})>>,
     <<File(root, {k1, k2}), File(enGB, {k2}), File(ko, {k1})>>}

\* Items with no, one and several labels, known or not, in both orders.
MCItemLists ==
    {<<>>,
     <<Item(TRUE, <<k1>>), Item(TRUE, <<k2, k1>>)>>,
     <<Item(FALSE, <<k1>>), Item(TRUE, <<>>), Item(TRUE, <<k2>>)>>}

Version(files, items) ==
    [manifest |-> [k \in DOMAIN files |-> files[k].folder],
     labels   |-> [f \in MCFolders |->
                      UNION {file.keys : file \in {g \in ToSet(files) : g.folder = f}}],
     items    |-> items]

MCPackages == {Version(files, items) : files \in MCFileLists, items \in MCItemLists}
=============================================================================
