SPECIFICATION Spec
INVARIANTS
    HostReleased
PROPERTIES
    PsGesturesObeyed
    ShortPressForwarded
