------------------------------ MODULE MCSidecar ------------------------------
EXTENDS Sidecar

\* Changing files and overlays with a worker that works; and worker faults.
MCSetups == { {"save", "delete", "overlay"}, {"save", "die", "late"} }
===============================================================================
