------------------------------ MODULE MCPipeline ------------------------------
(* Two commands on one output directory and one catalog of two indexes.       *)
EXTENDS Pipeline, TLC

CONSTANTS c1, c2, s, t, amd, arm, a1, r1, a2, r2, a3, a4, x, y, z, xmeta, ymeta, zmeta

MCBuilds   == {c1, c2}
MCChannels == {s, t}
MCOffers   == {amd, arm}
MCImages   == {a1, r1, a2, r2, a3, a4}
MCPaths    == {x, y, z, xmeta, ymeta, zmeta}
MCMetadataPath == (x :> xmeta) @@ (y :> ymeta) @@ (z :> zmeta)
MCTargets  == {<<x>>, <<y>>, <<x, y>>, <<y, x>>, <<x, y, z>>}

\* File names, of which ./x is cleaned to x and ../x is refused.
MCOutputPath == ("x" :> x) @@ ("./x" :> x) @@ ("y" :> y) @@ ("z" :> z) @@ ("../x" :> None)

Files1 == <<[offer |-> amd, image |-> a1], [offer |-> arm, image |-> r1]>>
Files2 == <<[offer |-> arm, image |-> r2], [offer |-> amd, image |-> a2]>>
Files3 == <<[offer |-> amd, image |-> a3], [offer |-> amd, image |-> a4]>>
Up(v, cs, fs) == [version |-> v, channels |-> cs, files |-> fs]

\* The newest update first, without a file; and an update without a version,
\* then two of the newest version.
MCIndexes ==
    { <<Up(3, {s}, Files3), Up(1, {s, t}, Files1)>>,
      <<Up(0, {s}, Files3), Up(1, {s, t}, Files1), Up(2, {s}, Files2), Up(2, {s}, Files1)>> }

From(c, v) == [channel |-> c, version |-> v]
Var(src, o, f, name) == [source |-> src, offer |-> o, format |-> f, filename |-> name]
Part(v, m) == [value |-> v, multiplier |-> m]

\* A literal with what viper reads in it.
Setting(size, timeout) ==
    [given |-> TRUE, wait |-> TRUE, aliasesGiven |-> TRUE,
     partSize |-> size[1], partSizeBytes |-> size[2],
     timeout |-> timeout, pollInterval |-> 1]

Good == Setting(<<Part(5, 4), 20>>, 1)
Cfg(cmd, defaults, vs, st) ==
    [command |-> cmd, defaults |-> defaults, variants |-> vs, settings |-> st]

\* Two architectures of the newest; a pinned one beside the newest, or as a third;
\* an older one of another channel.
Both   == <<Var(From(Unset, 0), amd, "raw", "x"), Var(From(Unset, 0), arm, "raw.gz", "y")>>
Pinned1 == <<Var(From(Unset, 1), arm, "raw", "y"), Var(From(Unset, 0), amd, "raw", "./x")>>
Clash  == <<Var(From(t, 0), amd, "raw", "x"), Var(From(t, 0), amd, "raw", "./x")>>
Three  == Append(Both, Var(From(s, 1), amd, "raw", "z"))
Single == <<Var(From(t, 0), amd, "raw", "x")>>

\* The bounds are 20 and 40; viper may read 0, a number past int64, or any other.
Sizes == { <<Part(5, 4), 20>>, <<Part(40, 1), 40>>, <<Part(4, 4), 16>>, <<Part(6, 8), 48>>,
           <<Part(67, 8), 24>>, <<Malformed, 24>>, <<Part(5, 4), 0>>, <<Part(5, 4), 276>> }

Plans   == Cfg("plan", From(s, 0), Both, Good)
Builds2 == Cfg("build", From(Unset, 0), Both, Good)
Builds3 == Cfg("build", From(Unset, 0), Three, Good)
Pins    == Cfg("build", From(s, 0), Pinned1, Good)
Clashes == Cfg("build", From(s, 0), Clash, Good)
Refused ==
    { Cfg("build", From(s, 0), <<Var(From(s, 0), arm, "qcow2", "x")>>, Good),
      Cfg("build", From(s, 0), <<Var(From(s, 0), arm, "raw", "../x")>>, Good) }
Publishes == { Cfg("publish", From(s, 0), Single, Setting(p, d)) : p \in Sizes, d \in 0..1 }

Pair(a, b) == (c1 :> a) @@ (c2 :> b)
MCInvocations ==
    { Pair(Plans, Builds2), Pair(Plans, Pins), Pair(Builds2, Builds2), Pair(Builds2, Pins),
      Pair(Builds3, Pins), Pair(Clashes, Pins) }
    \cup { Pair(Pins, r) : r \in Refused } \cup { Pair(p, Pins) : p \in Publishes }

MCQueries ==
    UNION { { QueryOf(cfg, i) : i \in DOMAIN cfg.variants } : cfg \in Configs }
===============================================================================
