----------------------------- MODULE MCCertTool -----------------------------
EXTENDS CertTool

\* Every combination of the options main tests.  argc > 2 whenever -V comes
\* with any of them (and may also be due to options the model leaves out:
\* -v, -d, -w, -#).
MCCmdLines ==
    { c \in CmdFields :
        (c.parseError \/ c.help \/ c.password \/ c.file \/ c.approve
         \/ c.revoke \/ c.deny \/ c.certId \/ c.format # "none") => c.argc3 }
=============================================================================
