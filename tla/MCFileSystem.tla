---------------------------- MODULE MCFileSystem ----------------------------
EXTENDS FileSystem
CONSTANTS t1, x

Relative(names) == [abs |-> FALSE, names |-> names]

MCArgs == {[abs |-> TRUE, names |-> <<>>], Relative(<<"..">>), Relative(<<t1>>), Relative(<<x>>),
           Relative(<<"..", x>>), Relative(<<x, t1>>)}

MCProgPaths == {<<t1>>, <<x>>, <<x, x>>}
=============================================================================
