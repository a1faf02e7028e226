------------------------------ MODULE MCLuaGC -------------------------------
(* Three addresses, and what programs use them for.                        *)
EXTENDS LuaGC, TLC

CONSTANTS a, b, c

Use(p, q, r) == (a :> p) @@ (b :> q) @@ (c :> r)

\* A coroutine and a closure that share a variable; a weak table of each mode
\* with an object that may have a finalizer; a weak table that holds the only
\* reference to another; strings, of two hash values.
Uses == {Use("closure", "upval", "thread"),
         Use("udata", "weakvalue", "unused"),
         Use("udata", "ephemeron", "unused"),
         Use("udata", "allweak", "unused"),
         Use("strong", "ephemeron", "unused"),
         Use("ephemeron", "ephemeron", "unused"),
         Use("string", "allweak", "unused"),
         Use("string", "string", "string")}

\* A weak table with a key and a value.
EphemeronUses == {Use("strong", "ephemeron", "udata")}
Hash == (a :> 0) @@ (b :> 1) @@ (c :> 0)
=============================================================================
