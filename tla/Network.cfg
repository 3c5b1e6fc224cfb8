\* The servers, their sockets and their settings.
CONSTANT Settings <- SomeSettings

SPECIFICATION Spec

INVARIANT TypeOK
INVARIANT AsConfigured
INVARIANT GoesOutAsConfigured

PROPERTY PlayingAgainHeals
