---------------------------- MODULE MCCommitPush ----------------------------
(* CommitPush on small instances: one file whose path policy allows and    *)
(* one it does not, or two it allows; each absent, text or binary.         *)
EXTENDS CommitPush

CONSTANTS source, other, secret, text, binary

SelectAll  == {{source, secret}}
SelectSome == {{source}, {source, secret}}
SelectOne  == {{source}}
=============================================================================
