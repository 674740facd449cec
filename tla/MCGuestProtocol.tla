---- MODULE MCGuestProtocol ----
EXTENDS GuestProtocol
====
